---- MODULE Spec2Model ----
(***************************************************************************)
(* A model of the Chirality semantic calculator core:                      *)
(*   - chirality/core/cell_resolver.py  (CellResolver: prompt assembly,    *)
(*     the retry engine _call_openai, hashing, JSON extraction/validation) *)
(*   - chirality/core/operations.py     (the three-stage cell pipeline and *)
(*     the matrix wrappers)                                                *)
(*   - chirality/core/types.py, context.py, matrices.py                    *)
(*                                                                         *)
(*   - tests/mocks.py (MockCellResolver, MockTracer) and the               *)
(*     EchoResolverAdapter of chirality/cli.py                             *)
(*                                                                         *)
(* Four specifications share the variables:                                *)
(*   Spec      _call_openai called directly, the service nondeterministic  *)
(*   SpecCell  the cell functions driven by the CellResolver               *)
(*             (FairSpecCell: the same, and the program runs on)           *)
(*   SpecPipe  the cell functions and the matrix wrappers driven by the    *)
(*             deterministic resolvers, on fitting and unfitting operands  *)
(*   SpecSink  the cell functions with a tracer whose calls may raise      *)
(*                                                                         *)
(* A Python str is modelled as a sequence of one-token strings, so that    *)
(* concatenation is \o, slicing is SubSeq, and whitespace handling works   *)
(* character by character.  Times are in tenths of a second (0.4 s = 4),   *)
(* temperatures in tenths (0.7 = 7).                                       *)
(***************************************************************************)
EXTENDS Integers, Sequences, FiniteSets, TLC

VARIABLES
    resolver,         \* the CellResolver object's fields (self.*)
    dpc,              \* position of _call_openai: idle | try | sleep | returned | raised
    system_prompt,    \* _call_openai argument
    user_prompt,      \* _call_openai argument
    operation,        \* _call_openai argument
    temperature,      \* _call_openai local
    prompt_hash_val,  \* _call_openai local
    attempt,          \* _call_openai local
    last_err,         \* _call_openai local
    log,              \* what one dispatch did: service calls and sleeps, in order
    attempt_err,      \* the exception of the latest attempt (NoneErr: none yet, or success)
    err_varied,       \* some attempt of this dispatch failed differently from the one before
    ret,              \* what _call_openai handed to its caller
    ndispatch,        \* dispatches started by the direct caller
    prev,             \* prompts and hash of the previous finished dispatch
    cpc,              \* position of a cell function: idle | begin | wait | resumed | done | raised
    cargs,            \* the cell function's arguments
    loc,              \* the cell function's locals
    cres,             \* what the cell function handed to its caller: a Cell or an exception
    rcall,            \* the latest resolver call: method, argument, context
    rret,             \* what the latest resolver call returned
    call_count,       \* resolver calls made, per method (MockCellResolver.call_count)
    trace,            \* the events the tracer was handed, in order
    hist,             \* trace events, resolver calls and resolver returns, in order
    mpc,              \* position of a matrix wrapper: idle | loop | done | raised
    margs,            \* the matrix wrapper's arguments
    mloc,             \* the matrix wrapper's locals: i, j, row_cells, cells
    mres,             \* what the matrix wrapper handed to its caller
    ucall,            \* a constructor or helper a caller invoked on its own: name and arguments
    uret              \* what that constructor or helper handed back

dvars == <<resolver, dpc, system_prompt, user_prompt, operation, temperature,
           prompt_hash_val, attempt, last_err, log, attempt_err, err_varied, ret>>

cvars == <<cpc, cargs, loc, cres, rcall, rret, call_count, trace, hist>>

mvars == <<mpc, margs, mloc, mres>>

uvars == <<ucall, uret>>

vars == <<resolver, dpc, system_prompt, user_prompt, operation, temperature,
          prompt_hash_val, attempt, last_err, log, attempt_err, err_varied, ret,
          ndispatch, prev, cpc, cargs, loc, cres, rcall, rret, call_count, trace, hist,
          mpc, margs, mloc, mres, ucall, uret>>

(***************************************************************************)
(* Bounds of the model.                                                    *)
(***************************************************************************)
MaxDispatches == 2

\* rows and columns of the operands handed to the CellResolver-driven pipeline
MaxK == 2

(***************************************************************************)
(* Python str helpers.                                                     *)
(***************************************************************************)
\* the characters matched by the regex class \s (and removed by str.strip)
Whitespace == {" ", "\t", "\n", "NBSP"}

\* unicodedata.normalize("NFKC", c) for one character: the ligature U+FB01
\* decomposes into two letters, the no-break space U+00A0 into a space
NfkcChar(c) ==
    IF c = "LIG_FI" THEN <<"f", "i">>
    ELSE IF c = "NBSP" THEN <<" ">>
    ELSE <<c>>

\* unicodedata.normalize("NFKC", s), character by character: the characters
\* of s take the odd slots, the second letter of a ligature the even slot
\* that follows it
Nfkc(s) ==
    CHOOSE r \in
        { [m \in 1..Len(slots) |->
              NfkcChar(s[(slots[m] + 1) \div 2])[2 - (slots[m] % 2)]] :
          slots \in { SelectSeq([n \in 1..(2 * Len(s)) |-> n],
                               LAMBDA n : n % 2 = 1 \/ s[n \div 2] = "LIG_FI") } } : TRUE

\* the text from its first character that is not whitespace
LStrip(s) ==
    LET inked == {p \in 1..Len(s) : s[p] \notin Whitespace}
    IN IF inked = {} THEN <<>>
       ELSE SubSeq(s, CHOOSE p \in inked : \A q \in inked : p <= q, Len(s))

\* the text up to its last character that is not whitespace
RStrip(s) ==
    LET inked == {p \in 1..Len(s) : s[p] \notin Whitespace}
    IN IF inked = {} THEN <<>>
       ELSE SubSeq(s, 1, CHOOSE p \in inked : \A q \in inked : q <= p)

\* str.strip()
Strip(s) == CHOOSE r \in {RStrip(l) : l \in {LStrip(s)}} : TRUE

\* re.sub(r"\s+", " ", s): every maximal run of whitespace becomes one space
\* (the first character of a run is kept, as a space; the rest of it goes)
CollapseWs(s) ==
    CHOOSE r \in
        { [m \in 1..Len(kept) |->
              IF s[kept[m]] \in Whitespace THEN " " ELSE s[kept[m]]] :
          kept \in { SelectSeq([p \in 1..Len(s) |-> p],
                              LAMBDA p : ~(s[p] \in Whitespace /\ p > 1
                                           /\ s[p - 1] \in Whitespace)) } } : TRUE

\* a plausible slip: r"\s" instead of r"\s+" (each whitespace character
\* becomes a space, runs are kept)
ReplaceEachWs(s) == [p \in 1..Len(s) |-> IF s[p] \in Whitespace THEN " " ELSE s[p]]

normalize_text_no_collapse(s) ==
    CHOOSE r \in {Strip(c) : c \in {ReplaceEachWs(n) : n \in {Nfkc(s)}}} : TRUE

\* cell_resolver.normalize_text (the None branch is not modelled: every
\* caller passes a str)
\* (each stage is a value bound once: the one element of a one-element set)
normalize_text(s) ==
    CHOOSE r \in {Strip(c) : c \in {CollapseWs(n) : n \in {Nfkc(s)}}} : TRUE

\* hashlib.sha256(...).hexdigest(): a collision-free digest is modelled by
\* its preimage
Sha256(bytes) == [sha256 |-> bytes]

\* CellResolver._prompt_hash: three update() calls hash the concatenation
_prompt_hash(system, user) ==
    Sha256(normalize_text(system) \o <<"\n", "\n">> \o normalize_text(user))

\* prompts.SYSTEM_PROMPT, abbreviated to two of its lines and the blank line
\* between them
SYSTEM_PROMPT ==
    <<"You are the semantic engine for the Chirality Framework", "\n", "\n",
      "Respond with JSON only", "\n">>

\* CellResolver._system_version_hash
_system_version_hash == Sha256(normalize_text(SYSTEM_PROMPT))

(***************************************************************************)
(* Exceptions: a class and a message.                                      *)
(***************************************************************************)
Err(cls, msg) == [cls |-> cls, msg |-> msg]
NoneErr == Err("NoneType", "None")

\* classes derived from Exception (KeyboardInterrupt and SystemExit derive
\* from BaseException only; the service client raises none of them)
ExceptionClasses ==
    {"ValueError", "JSONDecodeError", "IndexError", "APIConnectionError",
     "RateLimitError", "AttributeError"}

\* a narrower handler: "except ValueError"
CaughtOnlyValueError(e) == e.cls \in {"ValueError", "JSONDecodeError"}

\* "except Exception as e" in _call_openai
Caught(e) == e.cls \in ExceptionClasses

\* str(e)
StrErr(e) == e.msg

(***************************************************************************)
(* JSON values: t is the Python type, s the value of a str, l the items of *)
(* a list (each again a type and a str value).                             *)
(***************************************************************************)
JStr(s) == [t |-> "str", s |-> s, l |-> <<>>]
JInt == [t |-> "int", s |-> <<>>, l |-> <<>>]
JList(items) == [t |-> "list", s |-> <<>>, l |-> items]
JItem(t, s) == [t |-> t, s |-> s]

Ok(v) == [ok |-> TRUE, val |-> v, err |-> NoneErr]
Fail(e) == [ok |-> FALSE, val |-> <<>>, err |-> e]

\* the objects the sample response bodies stand for
JsonBodies ==
    [OK_T |->
        [text |-> JStr(<<"Essential Values">>), terms_used |-> JList(<<JItem("str", <<"Values">>)>>),
         warnings |-> JList(<<>>)],
     OK_EMPTY |->
        [text |-> JStr(<<>>), terms_used |-> JList(<<>>), warnings |-> JList(<<>>)],
     MISSING_KEY |->
        [text |-> JStr(<<"t">>), terms_used |-> JList(<<>>)],
     TEXT_INT |->
        [text |-> JInt, terms_used |-> JList(<<>>), warnings |-> JList(<<>>)],
     TERMS_NOT_LIST |->
        [text |-> JStr(<<"t">>), terms_used |-> JStr(<<"a">>), warnings |-> JList(<<>>)],
     TERMS_HAS_INT |->
        [text |-> JStr(<<"t">>), terms_used |-> JList(<<JItem("str", <<"a">>), JItem("int", <<>>)>>),
         warnings |-> JList(<<>>)],
     WARN_NOT_LIST |->
        [text |-> JStr(<<"t">>), terms_used |-> JList(<<>>), warnings |-> JInt],
     WARN_HAS_INT |->
        [text |-> JStr(<<"t">>), terms_used |-> JList(<<>>), warnings |-> JList(<<JItem("int", <<>>)>>)]]

\* json.loads on the extracted text: "{" body "}" parses when the body is
\* one of the sample bodies; anything else is a JSONDecodeError
json_loads(js) ==
    IF Len(js) = 3 /\ js[1] = "{" /\ js[3] = "}" /\ js[2] \in DOMAIN JsonBodies
    THEN Ok(JsonBodies[js[2]])
    ELSE Fail(Err("JSONDecodeError", "Expecting property name enclosed in double quotes"))

\* str.find / str.rfind of one character: 1-based position, 0 when absent
\* (Python: 0-based, -1 when absent)
Find(text, c) ==
    IF \E p \in 1..Len(text) : text[p] = c
    THEN CHOOSE p \in 1..Len(text) : text[p] = c /\ \A q \in 1..(p - 1) : text[q] # c
    ELSE 0

\* a search from the right that stops at the leftmost match
RFindLeftmost(text, c) == Find(text, c)

RFind(text, c) ==
    IF \E p \in 1..Len(text) : text[p] = c
    THEN CHOOSE p \in 1..Len(text) :
            text[p] = c /\ \A q \in (p + 1)..Len(text) : text[q] # c
    ELSE 0

\* CellResolver._extract_json
_extract_json(text) ==
    IF text = <<>> THEN Fail(Err("ValueError", "Empty model output"))
    ELSE LET start == Find(text, "{")
             end == RFind(text, "}")
         IN IF start = 0 \/ end = 0 \/ end <= start
            THEN Fail(Err("ValueError", "No JSON object found in model output"))
            ELSE Ok(SubSeq(text, start, end))

AllStr(items) == \A n \in 1..Len(items) : items[n].t = "str"

\* a validation that looks at the keys only
_validate_obj_keys_only(obj) ==
    IF ~({"text", "terms_used", "warnings"} \subseteq DOMAIN obj)
    THEN Fail(Err("ValueError", "Missing required keys (text, terms_used, warnings)"))
    ELSE Ok(obj)

\* CellResolver._validate_obj (json.loads of text that starts with "{"
\* yields a dict, so the isinstance(obj, dict) test passes)
_validate_obj(obj) ==
    IF ~({"text", "terms_used", "warnings"} \subseteq DOMAIN obj)
    THEN Fail(Err("ValueError", "Missing required keys (text, terms_used, warnings)"))
    ELSE IF obj.text.t # "str"
    THEN Fail(Err("ValueError", "'text' must be string"))
    ELSE IF ~(obj.terms_used.t = "list" /\ AllStr(obj.terms_used.l))
    THEN Fail(Err("ValueError", "'terms_used' must be list[str]"))
    ELSE IF ~(obj.warnings.t = "list" /\ AllStr(obj.warnings.l))
    THEN Fail(Err("ValueError", "'warnings' must be list[str]"))
    ELSE Ok(obj)

(***************************************************************************)
(* The external service, one behaviour per attempt.                        *)
(***************************************************************************)
Raises(e) == [kind |-> "raise", err |-> e, content |-> <<>>]
Responds(content) == [kind |-> "resp", err |-> NoneErr, content |-> content]

ServiceBehaviours ==
    { Raises(Err("APIConnectionError", "Connection error.")),
      Raises(Err("RateLimitError", "Rate limit reached")),
      \* a response with an empty choices list: resp.choices[0] fails
      [kind |-> "nochoices", err |-> NoneErr, content |-> <<>>],
      \* message.content is None or "": raw is ""
      Responds(<<>>),
      Responds(<<"I", " ", "cannot">>),
      Responds(<<"}", " ", "{">>),
      Responds(<<"{", "OK_T">>),
      Responds(<<"{", "BAD", "}">>),
      Responds(<<"{", "OK_T", "}", "}">>),
      Responds(<<"{", "MISSING_KEY", "}">>),
      Responds(<<"{", "TEXT_INT", "}">>),
      Responds(<<"{", "TERMS_NOT_LIST", "}">>),
      Responds(<<"{", "TERMS_HAS_INT", "}">>),
      Responds(<<"{", "WARN_NOT_LIST", "}">>),
      Responds(<<"{", "WARN_HAS_INT", "}">>),
      Responds(<<"{", "OK_T", "}">>),
      Responds(<<"noise", " ", "{", "OK_T", "}", " ", "trailing">>),
      Responds(<<"{", "OK_EMPTY", "}">>) }

\* the body of the try block of _call_openai up to and including
\* self._validate_obj(obj): the validated object, or the exception raised
TryBody(beh) ==
    IF beh.kind = "raise" THEN Fail(beh.err)
    ELSE IF beh.kind = "nochoices"
    THEN Fail(Err("IndexError", "list index out of range"))
    ELSE LET raw == beh.content
             js == _extract_json(raw)
         IN IF ~js.ok THEN js
            ELSE LET obj == json_loads(js.val)
                 IN IF ~obj.ok THEN obj ELSE _validate_obj(obj.val)

(***************************************************************************)
(* CellResolver configuration.                                             *)
(***************************************************************************)
max_retries == 3
base_delay == 4

temperatures ==
    [op \in {"multiply", "add", "interpret", "*", "+", "odot"} |->
        IF op \in {"multiply", "*", "odot"} THEN 7 ELSE 5]

\* CellResolver.__init__ with a credential and the client library present
NewCellResolver ==
    [kind |-> "openai", model |-> "gpt-4o", seed |-> 42, temperatures |-> temperatures,
     max_retries |-> max_retries, base_delay |-> base_delay,
     default_system_frame |-> SYSTEM_PROMPT]

\* self.temperatures.get(operation, 0.5)
\* a lookup that ignores the table
TemperatureForAnyKind(self, op) == 5

TemperatureFor(self, op) ==
    IF op \in DOMAIN self.temperatures THEN self.temperatures[op] ELSE 5

RECURSIVE Pow2(_)
Pow2(n) == IF n = 0 THEN 1 ELSE 2 * Pow2(n - 1)

\* the delay computed from the index of the attempt that follows
WaitTimeOfNextAttempt(self, att) == self.base_delay * Pow2(att + 1)

\* a linear backoff in place of the exponential one
WaitTimeLinear(self, att) == self.base_delay * (att + 1)

\* wait_time = self.base_delay * (2 ** attempt)
WaitTime(self, att) == self.base_delay * Pow2(att)

\* a loop that gives up one attempt early
BudgetExhaustedEarly(self, att) == att >= self.max_retries - 1

\* if attempt >= self.max_retries: break
BudgetExhausted(self, att) == att >= self.max_retries

\* while attempt <= self.max_retries
WhileCond(self, att) == att <= self.max_retries

\* a handler that keeps the first error instead of the latest
KeepFirstErr(old, e) == IF old = NoneErr THEN e ELSE old

\* last_err = e
NextLastErr(old, e) == e

(***************************************************************************)
(* _call_openai                                                            *)
(***************************************************************************)
CallEv(att, r) == [ev |-> "call", n |-> att, ok |-> r.ok]
SleepEv(d) == [ev |-> "sleep", n |-> d, ok |-> TRUE]

NoRet == [phase |-> "none"]

\* the success return: (obj, meta)
\* a success return that reports the retries instead of the service calls
SuccessReturnCountingRetries(self, obj, op, temp, hash, att) ==
    [phase |-> "ok",
     response |-> obj,
     meta |-> [modelId |-> self.model,
               promptHash |-> hash,
               systemVersion |-> _system_version_hash,
               attempts |-> att,
               temperature |-> temp,
               maxTokens |-> 200,
               phase |-> op]]

SuccessReturn(self, obj, op, temp, hash, att) ==
    [phase |-> "ok",
     response |-> obj,
     meta |-> [modelId |-> self.model,
               promptHash |-> hash,
               systemVersion |-> _system_version_hash,
               attempts |-> att + 1,
               temperature |-> temp,
               maxTokens |-> 200,
               phase |-> op]]

\* the failure return after the loop: (error_response, error_meta)
\* a failure outcome whose warnings field is the bare message
ErrorReturnBareWarning(self, op, hash, att, err) ==
    [phase |-> "error",
     response |-> [text |-> JStr(<<"ERROR: Failed to process ", op>>),
                   terms_used |-> JList(<<>>),
                   warnings |-> JStr(<<"openai_failure: ", StrErr(err)>>)],
     meta |-> [modelId |-> self.model,
               latencyMs |-> 0,
               promptHash |-> hash,
               error |-> StrErr(err),
               operation |-> op,
               attempts |-> att + 1,
               phase |-> "error"]]

ErrorReturn(self, op, hash, att, err) ==
    [phase |-> "error",
     response |-> [text |-> JStr(<<"ERROR: Failed to process ", op>>),
                   terms_used |-> JList(<<>>),
                   warnings |-> JList(<<JItem("str", <<"openai_failure: ", StrErr(err)>>)>>)],
     meta |-> [modelId |-> self.model,
               latencyMs |-> 0,
               promptHash |-> hash,
               error |-> StrErr(err),
               operation |-> op,
               attempts |-> att + 1,
               phase |-> "error"]]

\* a dispatch whose attempt counter goes on from where it stood
DispatchStartCountingOn(sys, user, op) ==
    /\ system_prompt' = sys
    /\ user_prompt' = user
    /\ operation' = op
    /\ temperature' = TemperatureFor(resolver, op)
    /\ prompt_hash_val' = _prompt_hash(sys, user)
    /\ attempt' = attempt + 1
    /\ last_err' = NoneErr
    /\ log' = <<>>
    /\ attempt_err' = NoneErr
    /\ err_varied' = FALSE
    /\ ret' = NoRet
    /\ dpc' = IF WhileCond(resolver, 0) THEN "try" ELSE "returned"
    /\ UNCHANGED resolver

\* entry of _call_openai: the statements before the while loop
DispatchStart(sys, user, op) ==
    /\ system_prompt' = sys
    /\ user_prompt' = user
    /\ operation' = op
    /\ temperature' = TemperatureFor(resolver, op)
    /\ prompt_hash_val' = _prompt_hash(sys, user)
    /\ attempt' = 0
    /\ last_err' = NoneErr
    /\ log' = <<>>
    /\ attempt_err' = NoneErr
    /\ err_varied' = FALSE
    /\ ret' = NoRet
    /\ dpc' = IF WhileCond(resolver, 0) THEN "try" ELSE "returned"
    /\ UNCHANGED resolver

\* one iteration of the while loop up to the return, the break or the sleep
Attempt ==
    /\ dpc = "try"
    /\ \E beh \in ServiceBehaviours :
         LET r == TryBody(beh)
         IN /\ log' = Append(log, CallEv(attempt, r))
            /\ attempt_err' = r.err
            /\ err_varied' = (err_varied \/ (~r.ok /\ attempt_err # NoneErr /\ attempt_err # r.err))
            /\ IF r.ok
               THEN /\ ret' = SuccessReturn(resolver, r.val, operation, temperature,
                                            prompt_hash_val, attempt)
                    /\ dpc' = "returned"
                    /\ UNCHANGED last_err
               ELSE IF ~Caught(r.err)
               THEN /\ dpc' = "raised"
                    /\ UNCHANGED <<ret, last_err>>
               ELSE /\ last_err' = NextLastErr(last_err, r.err)
                    /\ IF BudgetExhausted(resolver, attempt)
                       THEN /\ ret' = ErrorReturn(resolver, operation, prompt_hash_val,
                                                  attempt, last_err')
                            /\ dpc' = "returned"
                       ELSE /\ dpc' = "sleep"
                            /\ UNCHANGED ret
    /\ UNCHANGED <<resolver, system_prompt, user_prompt, operation, temperature,
                   prompt_hash_val, attempt>>

\* time.sleep(wait_time); attempt += 1; and the loop test that follows
Sleep ==
    /\ dpc = "sleep"
    /\ log' = Append(log, SleepEv(WaitTime(resolver, attempt)))
    /\ attempt' = attempt + 1
    /\ IF WhileCond(resolver, attempt')
       THEN /\ dpc' = "try"
            /\ UNCHANGED ret
       ELSE /\ ret' = ErrorReturn(resolver, operation, prompt_hash_val, attempt', last_err)
            /\ dpc' = "returned"
    /\ UNCHANGED <<resolver, system_prompt, user_prompt, operation, temperature,
                   prompt_hash_val, last_err, attempt_err, err_varied>>

(***************************************************************************)
(* The data model: types.py, context.py, matrices.py.                      *)
(* Row and column indices are 0-based as in the source; a TLA+ sequence is *)
(* 1-based, so cells[row][col] of the source is cells[row + 1][col + 1].   *)
(***************************************************************************)
Some(v) == [some |-> TRUE, v |-> v]
None == [some |-> FALSE, v |-> <<>>]

\* types.Cell
Cell(row, col, value, provenance) ==
    [row |-> row, col |-> col, value |-> value, provenance |-> provenance]

\* types.Matrix
Matrix(name, station, row_labels, col_labels, cells) ==
    [name |-> name, station |-> station, row_labels |-> row_labels,
     col_labels |-> col_labels, cells |-> cells]

\* Matrix.shape
shape(M) == <<Len(M.row_labels), Len(M.col_labels)>>

\* Matrix.get_cell
get_cell(M, row, col) ==
    IF 0 <= row /\ row < Len(M.cells) /\ 0 <= col /\ col < Len(M.cells[row + 1])
    THEN Some(M.cells[row + 1][col + 1])
    ELSE None

\* matrices._create_cell
_create_cell(row, col, value) ==
    Cell(row, col, value, [source |-> "canonical_matrix"])

\* matrices._create_matrix_cells
_create_matrix_cells(content) ==
    [r \in 1..Len(content) |->
        [c \in 1..Len(content[r]) |-> _create_cell(r - 1, c - 1, content[r][c])]]

MATRIX_A ==
    Matrix("A", "Problem Statement",
           << <<"Normative">>, <<"Operative">>, <<"Evaluative">> >>,
           << <<"Guiding">>, <<"Applying">>, <<"Judging">>, <<"Reflecting">> >>,
           _create_matrix_cells(<<
             << <<"Values">>, <<"Actions">>, <<"Benchmarks">>, <<"Feedback">> >>,
             << <<"Principles">>, <<"Methods">>, <<"Standards">>, <<"Adaptation">> >>,
             << <<"Objectives">>, <<"Coordination">>, <<"Evaluation">>, <<"Consolidation">> >> >>))

MATRIX_B ==
    Matrix("B", "Problem Statement",
           << <<"Data">>, <<"Information">>, <<"Knowledge">>, <<"Wisdom">> >>,
           << <<"Determinacy">>, <<"Sufficiency">>, <<"Completeness">>, <<"Consistency">> >>,
           _create_matrix_cells(<<
             << <<"Necessary">>, <<"Sufficient">>, <<"Complete">>, <<"Probability">> >>,
             << <<"Contingent">>, <<"Insufficient">>, <<"Incomplete">>, <<"Possibility">> >>,
             << <<"Fundamental">>, <<"Appropriate">>, <<"Holistic">>, <<"Feasibility">> >>,
             << <<"Best", " ", "Practices">>, <<"Limits", " ", "of">>,
                <<"Justification", " ", "for">>, <<"Practicality">> >> >>))

MATRIX_J ==
    Matrix("J", "Objectives",
           << <<"Data">>, <<"Information">>, <<"Knowledge">> >>,
           << <<"Determinacy">>, <<"Sufficiency">>, <<"Completeness">>, <<"Consistency">> >>,
           _create_matrix_cells(<<
             << <<"Necessary">>, <<"Sufficient">>, <<"Complete">>, <<"Probability">> >>,
             << <<"Contingent">>, <<"Insufficient">>, <<"Incomplete">>, <<"Possibility">> >>,
             << <<"Fundamental">>, <<"Appropriate">>, <<"Holistic">>, <<"Feasibility">> >> >>))

\* a well-formed Matrix of any shape, labelled and filled the way
\* tests/mocks.py MockMatrix does: Row<i>, Col<j>, <name>[<i>,<j>]
TestMatrix(name, rows, cols) ==
    Matrix(name, "Test",
           [r \in 1..rows |-> <<"Row", ToString(r - 1)>>],
           [c \in 1..cols |-> <<"Col", ToString(c - 1)>>],
           [r \in 1..rows |->
              [c \in 1..cols |->
                 Cell(r - 1, c - 1,
                      <<name, "[", ToString(r - 1), ",", ToString(c - 1), "]">>,
                      [source |-> "canonical_matrix"])]])

\* seq[i] of a Python list: negative indices count from the end
PyIndex(seq, i) ==
    IF 0 <= i /\ i < Len(seq) THEN Ok(seq[i + 1])
    ELSE IF i < 0 /\ -i <= Len(seq) THEN Ok(seq[Len(seq) + i + 1])
    ELSE Fail(Err("IndexError", "list index out of range"))

\* the parts joined last to first
RECURSIVE JoinBackwards(_, _)
JoinBackwards(parts, sep) ==
    IF parts = <<>> THEN <<>>
    ELSE IF Len(parts) = 1 THEN parts[1]
    ELSE JoinBackwards(Tail(parts), sep) \o sep \o parts[1]

\* sep.join(parts)
RECURSIVE Join(_, _)
Join(parts, sep) ==
    IF parts = <<>> THEN <<>>
    ELSE IF Len(parts) = 1 THEN parts[1]
    ELSE parts[1] \o sep \o Join(Tail(parts), sep)

\* s.split(sep) for a separator that is one token of the text
RECURSIVE Split(_, _)
Split(s, sep) ==
    IF \E p \in 1..Len(s) : s[p] = sep
    THEN LET p == Find(s, sep)
         IN <<SubSeq(s, 1, p - 1)>> \o Split(SubSeq(s, p + 1, Len(s)), sep)
    ELSE <<s>>

\* the separator of a product pair
Star == " * "

\* context.SemanticContext: the constructor with its __post_init__ checks;
\* terms is the dict as a sequence of <<key, value>> pairs
\* __post_init__ without its valley_summary check
SemanticContextAnyValley(station_context, valley_summary, row_label, col_label, operation_type, terms, matrix, i, j) ==
    IF station_context = <<>>
    THEN Fail(Err("ValueError", "station_context is required"))
    ELSE IF operation_type = ""
    THEN Fail(Err("ValueError", "operation_type is required"))
    ELSE IF terms = <<>>
    THEN Fail(Err("ValueError", "terms dictionary is required"))
    ELSE Ok([station_context |-> station_context,
             valley_summary |-> valley_summary,
             row_label |-> row_label,
             col_label |-> col_label,
             operation_type |-> operation_type,
             terms |-> terms,
             matrix |-> matrix,
             i |-> i,
             j |-> j,
             operation_instructions |-> <<>>,
             system_frame |-> <<>>])

SemanticContext(station_context, valley_summary, row_label, col_label, operation_type, terms, matrix, i, j) ==
    IF station_context = <<>>
    THEN Fail(Err("ValueError", "station_context is required"))
    ELSE IF valley_summary = <<>>
    THEN Fail(Err("ValueError", "valley_summary is required"))
    ELSE IF operation_type = ""
    THEN Fail(Err("ValueError", "operation_type is required"))
    ELSE IF terms = <<>>
    THEN Fail(Err("ValueError", "terms dictionary is required"))
    ELSE Ok([station_context |-> station_context,
             valley_summary |-> valley_summary,
             row_label |-> row_label,
             col_label |-> col_label,
             operation_type |-> operation_type,
             terms |-> terms,
             matrix |-> matrix,
             i |-> i,
             j |-> j,
             operation_instructions |-> <<>>,
             system_frame |-> <<>>])

(***************************************************************************)
(* Resolvers: what a pipeline hands a pair or a content to.                *)
(*   CellResolver         cell_resolver.py (the service behind it)          *)
(*   MockCellResolver     tests/mocks.py                                    *)
(*   EchoResolverAdapter  cli.py                                            *)
(***************************************************************************)
\* a dict entry
KV(k, v) == [k |-> k, v |-> v]

\* repr() of a str without quotes or backslashes in it
Repr(text) == <<"'">> \o text \o <<"'">>

RECURSIVE DictItems(_)
DictItems(d) ==
    IF d = <<>> THEN <<>>
    ELSE Repr(<<d[1].k>>) \o <<":", " ">> \o Repr(d[1].v)
         \o (IF Len(d) > 1 THEN <<",", " ">> ELSE <<>>) \o DictItems(Tail(d))

\* str() of a dict whose values are str: what f"{terms}" formats
DictStr(d) == <<"{">> \o DictItems(d) \o <<"}">>

\* the default operation line of assemble_prompt, none for an unknown type
OperationFragment(operation_type) ==
    IF operation_type = "*"
    THEN << <<"Operation:", " ", "Semantic", " ", "multiplication", " ", "-", " ", "fuse",
              " ", "meanings", " ", "at", " ", "their", " ", "intersection">> >>
    ELSE IF operation_type = "interpret"
    THEN << <<"Operation:", " ", "Ontological", " ", "lensing", " ", "-", " ", "interpret",
              " ", "through", " ", "row/column", " ", "context">> >>
    ELSE IF operation_type = "synthesize"
    THEN << <<"Operation:", " ", "Synthesis", " ", "-", " ", "apply", " ", "canonical",
              " ", "D", " ", "formula">> >>
    ELSE <<>>

\* CellResolver.assemble_prompt
assemble_prompt(valley_summary, station, row_label, col_label, operation_type, terms, operation_instructions) ==
    LET fragments ==
            (IF valley_summary # <<>>
             THEN << <<"Valley", " ", "Context:", " ">> \o valley_summary >>
             ELSE <<>>)
            \o << <<"Station:", " ">> \o station >>
            \o << <<"Coordinates:", " ", "(">> \o row_label \o <<",", " ">> \o col_label
                  \o <<")">> >>
            \o (IF operation_instructions # <<>>
                THEN << <<"Operation:", " ">> \o operation_instructions >>
                ELSE OperationFragment(operation_type))
            \o << <<"Terms:", " ">> \o DictStr(terms) >>
    IN Join(fragments, <<"\n", "\n">>)

\* context.system_frame or self.default_system_frame
SystemFrame(self, context) ==
    IF context.system_frame # <<>> THEN context.system_frame ELSE self.default_system_frame

\* CellResolver.resolve_semantic_pair up to the dispatch: the prompts and the
\* operation handed to _call_openai, or the exception of pair.split(" * ")[n]
ResolvePrompts(self, pair, context) ==
    LET parts == Split(pair, Star)
        term_a == PyIndex(parts, 0)
        term_b == PyIndex(parts, 1)
    IN IF ~term_a.ok THEN Fail(term_a.err)
       ELSE IF ~term_b.ok THEN Fail(term_b.err)
       ELSE Ok([system |-> SystemFrame(self, context),
                user |-> assemble_prompt(context.valley_summary, context.station_context,
                                         context.row_label, context.col_label, "*",
                                         <<KV("term_a", term_a.val), KV("term_b", term_b.val)>>,
                                         context.operation_instructions),
                operation |-> "multiply"])

\* CellResolver.apply_ontological_lens up to the dispatch
LensPrompts(self, content, context) ==
    Ok([system |-> SystemFrame(self, context),
        user |-> assemble_prompt(context.valley_summary, context.station_context,
                                 context.row_label, context.col_label, "interpret",
                                 <<KV("content", content)>>,
                                 context.operation_instructions),
        operation |-> "interpret"])

\* a lookup that always finds nothing
ResponseTextDefault(response) == <<>>

\* response.get("text", "")
ResponseText(response) ==
    IF "text" \in DOMAIN response THEN response.text.s ELSE <<>>

\* MockCellResolver.resolve_semantic_pair: the patterns table
MockPatterns ==
    << KV(<<"Values", Star, "Necessary">>, <<"Essential", " ", "Values">>),
       KV(<<"Actions", Star, "Contingent">>, <<"Conditional", " ", "Actions">>),
       KV(<<"Benchmarks", Star, "Fundamental">>, <<"Foundational", " ", "Benchmarks">>),
       KV(<<"Feedback", Star, "Best", " ", "Practices">>,
          <<"Optimal", " ", "Reference", " ", "Points">>),
       KV(<<"Processes", Star, "Necessary">>, <<"Required", " ", "Processes">>),
       KV(<<"Insights", Star, "Necessary">>, <<"Critical", " ", "Insights">>),
       KV(<<"Comparisons", Star, "Necessary">>, <<"Essential", " ", "Comparisons">>),
       KV(<<"Learning", Star, "Necessary">>, <<"Fundamental", " ", "Learning">>) >>

\* left, right = pair.split(" * ", 1); f"{right} {left}"
RightLeft(pair) ==
    LET p == Find(pair, Star)
    IN SubSeq(pair, p + 1, Len(pair)) \o <<" ">> \o SubSeq(pair, 1, p - 1)

\* MockCellResolver.resolve_semantic_pair, pattern_style "descriptive"
MockResolveSemanticPair(pair) ==
    IF \E n \in 1..Len(MockPatterns) : MockPatterns[n].k = pair
    THEN MockPatterns[CHOOSE n \in 1..Len(MockPatterns) : MockPatterns[n].k = pair].v
    ELSE IF Find(pair, Star) # 0
    THEN RightLeft(pair)
    ELSE <<"Resolved(">> \o pair \o <<")">>

\* row_interpretations.get(context.row_label, f"applying {context.row_label}")
MockRowModifier(row_label) ==
    IF row_label = <<"Normative">> THEN <<"establishing", " ", "standards", " ", "for">>
    ELSE IF row_label = <<"Operative">> THEN <<"implementing", " ", "processes", " ", "for">>
    ELSE IF row_label = <<"Evaluative">> THEN <<"assessing", " ", "quality", " ", "of">>
    ELSE <<"applying", " ">> \o row_label

\* col_interpretations.get(context.col_label, f"through {context.col_label}")
MockColModifier(col_label) ==
    IF col_label = <<"Determinacy">> THEN <<"defining", " ", "clear", " ", "boundaries">>
    ELSE IF col_label = <<"Sufficiency">> THEN <<"ensuring", " ", "completeness">>
    ELSE IF col_label = <<"Necessity">> THEN <<"identifying", " ", "requirements">>
    ELSE IF col_label = <<"Contingency">> THEN <<"managing", " ", "dependencies">>
    ELSE IF col_label = <<"Possibility">> THEN <<"exploring", " ", "potential">>
    ELSE IF col_label = <<"Challenge">> THEN <<"addressing", " ", "difficulties">>
    ELSE IF col_label = <<"Comparison">> THEN <<"evaluating", " ", "alternatives">>
    ELSE IF col_label = <<"Paradigm">> THEN <<"shifting", " ", "perspectives">>
    ELSE <<"through", " ">> \o col_label

\* MockCellResolver.apply_ontological_lens, pattern_style "descriptive"
MockApplyOntologicalLens(content, context) ==
    <<"By", " ">> \o MockRowModifier(context.row_label) \o <<" ", "and", " ">>
    \o MockColModifier(context.col_label) \o <<",", " ", "we", " ", "interpret:", " ">>
    \o content

\* an echo that keeps the order of the words
EchoResolveSemanticPairInOrder(pair) ==
    IF Find(pair, Star) # 0
    THEN SubSeq(pair, 1, Find(pair, Star) - 1) \o <<" ">>
         \o SubSeq(pair, Find(pair, Star) + 1, Len(pair))
    ELSE <<"Resolved(">> \o pair \o <<")">>

\* EchoResolverAdapter.resolve_semantic_pair
EchoResolveSemanticPair(pair) ==
    IF Find(pair, Star) # 0 THEN RightLeft(pair) ELSE <<"Resolved(">> \o pair \o <<")">>

\* EchoResolverAdapter.apply_ontological_lens
EchoApplyOntologicalLens(content, context) ==
    <<"By", " ", "applying", " ">> \o context.row_label \o <<" ", "lens", " ", "through", " ">>
    \o context.col_label \o <<" ", "coordinates:", " ">> \o content

\* MockCellResolver() with its default pattern_style
NewMockCellResolver == [kind |-> "mock", pattern_style |-> "descriptive"]

\* EchoResolverAdapter()
NewEchoResolverAdapter == [kind |-> "echo"]

\* self.call_count of a fresh MockCellResolver
ZeroCounts == [resolve_semantic_pair |-> 0, apply_ontological_lens |-> 0]

(***************************************************************************)
(* The cell pipeline: operations.py.  A resolver call is where a pipeline  *)
(* blocks, so one step of a pipeline is the code from one resolver return  *)
(* (or from the entry) to the next resolver call (or to the return).  A    *)
(* step is first computed as a value: the position reached, the locals,    *)
(* the tracer's events, the resolver call issued and the function result.  *)
(***************************************************************************)
NoCall == [method |-> "none", arg |-> <<>>]
NoCell == Fail(NoneErr)

StepRaise(e, tr, l) ==
    [pc |-> "raised", loc |-> l, trace |-> tr, rcall |-> NoCall, cres |-> Fail(e)]

StepCall(method, arg, context, tr, l) ==
    [pc |-> "wait", loc |-> l, trace |-> tr,
     rcall |-> [method |-> method, arg |-> arg, context |-> context], cres |-> NoCell]

StepReturn(cell, tr, l) ==
    [pc |-> "done", loc |-> l, trace |-> tr, rcall |-> NoCall, cres |-> Ok(cell)]

\* the event labelled with the context's operation type
TraceEventLabelledByOperation(stage, context, result, extras) ==
    [stage |-> <<context.operation_type>>, context |-> context, result |-> result,
     extras |-> extras]

\* tracer.trace_stage(stage_type, context, result, extras): the event kept
TraceEvent(stage, context, result, extras) ==
    [stage |-> stage, context |-> context, result |-> result, extras |-> extras]

\* <cell>.value where <cell> is what get_cell returned
CellValue(c) ==
    IF c.some THEN Ok(c.v.value)
    ELSE Fail(Err("AttributeError", "'NoneType' object has no attribute 'value'"))

\* a context that carries the matrix tag as its operation type
MkContextTypedByMatrix(station, valley_summary, R, i, Q, j, operation_type, terms, matrix) ==
    LET row_label == PyIndex(R.row_labels, i)
        col_label == PyIndex(Q.col_labels, j)
    IN IF ~row_label.ok THEN Fail(row_label.err)
       ELSE IF ~col_label.ok THEN Fail(col_label.err)
       ELSE SemanticContext(station, valley_summary, row_label.val, col_label.val,
                            matrix, terms, matrix, i, j)

\* SemanticContext(..., row_label=R.row_labels[i], col_label=Q.col_labels[j], ...)
MkContext(station, valley_summary, R, i, Q, j, operation_type, terms, matrix) ==
    LET row_label == PyIndex(R.row_labels, i)
        col_label == PyIndex(Q.col_labels, j)
    IN IF ~row_label.ok THEN Fail(row_label.err)
       ELSE IF ~col_label.ok THEN Fail(col_label.err)
       ELSE SemanticContext(station, valley_summary, row_label.val, col_label.val,
                            operation_type, terms, matrix, i, j)

\* the column label first
CoordinatesColumnFirst(R, i, Q, j) ==
    LET row_label == PyIndex(R.row_labels, i)
        col_label == PyIndex(Q.col_labels, j)
    IN IF ~row_label.ok THEN Fail(row_label.err)
       ELSE IF ~col_label.ok THEN Fail(col_label.err)
       ELSE Ok(<<"(">> \o col_label.val \o <<",", " ">> \o row_label.val \o <<")">>)

\* f"({R.row_labels[i]}, {Q.col_labels[j]})"
Coordinates(R, i, Q, j) ==
    LET row_label == PyIndex(R.row_labels, i)
        col_label == PyIndex(Q.col_labels, j)
    IN IF ~row_label.ok THEN Fail(row_label.err)
       ELSE IF ~col_label.ok THEN Fail(col_label.err)
       ELSE Ok(<<"(">> \o row_label.val \o <<",", " ">> \o col_label.val \o <<")">>)

\* the operands the wrong way round
ProductPairSwapped(a, b) == b \o <<Star>> \o a

\* f"{a_cell.value} * {b_cell.value}"
ProductPair(a, b) == a \o <<Star>> \o b

\* stage 1 of compute_cell_C: the loop over k in range(A.shape[1])
raw_products(A, B, i, j) ==
    LET K == shape(A)[2]
        missing == {k \in 0..(K - 1) : ~get_cell(A, i, k).some \/ ~get_cell(B, k, j).some}
    IN IF missing # {}
       THEN Fail(Err("AttributeError", "'NoneType' object has no attribute 'value'"))
       ELSE Ok([k \in 1..K |-> ProductPair(get_cell(A, i, k - 1).v.value,
                                           get_cell(B, k - 1, j).v.value)])

\* [f"k={k}" for k in range(len(raw_products))]
KLabels(n) == [k \in 1..n |-> <<"k=", ToString(k - 1)>>]

Extras(station, valley_summary, products) ==
    [station |-> station, valley_summary |-> valley_summary, products |-> products]

PlanExtras(station, valley_summary, stage_plan) ==
    [station |-> station, valley_summary |-> valley_summary, stage_plan |-> stage_plan]

Result(text, terms_used) == [text |-> text, terms_used |-> terms_used, warnings |-> <<>>]

\* a loop that leaves the last product unresolved
MoreProductsButLast(l) == l.k < Len(l.raw_products) - 1

\* a stage-2 loop that stops at the first product that failed to resolve
MoreProductsUntilFailure(l) ==
    /\ l.k < Len(l.raw_products)
    /\ \A n \in 1..Len(l.resolved_concepts) :
          l.resolved_concepts[n] # <<"ERROR: Failed to process ", "multiply">>

\* the test of "for k, product_pair in enumerate(raw_products)"
MoreProducts(l) == l.k < Len(l.raw_products)

\* compute_cell_C from the head of the stage-2 loop to the next resolver call
C_Loop(a, tr, l) ==
    IF MoreProducts(l)
    THEN LET product_pair == l.raw_products[l.k + 1]
             c == MkContext(<<"Requirements">>, a.valley_summary, a.X, a.i, a.Y, a.j,
                            "*", <<KV("pair", product_pair)>>, "C")
         IN IF ~c.ok THEN StepRaise(c.err, tr, l)
            ELSE StepCall("resolve_semantic_pair", product_pair, c.val, tr, l)
    ELSE LET combined_concepts == Join(l.resolved_concepts, <<",", " ">>)
             c == MkContext(<<"Requirements">>, a.valley_summary, a.X, a.i, a.Y, a.j,
                            "interpret", <<KV("content", combined_concepts)>>, "C")
         IN IF ~c.ok THEN StepRaise(c.err, tr, l)
            ELSE StepCall("apply_ontological_lens", combined_concepts, c.val, tr, l)

\* compute_cell_C from its entry to the first resolver call
C_Begin(a, tr) ==
    LET p == raw_products(a.X, a.Y, a.i, a.j)
        l == [raw_products |-> p.val, resolved_concepts |-> <<>>, k |-> 0]
    IN IF ~p.ok THEN StepRaise(p.err, tr, l)
       ELSE IF a.tracer
       THEN LET c == MkContext(<<"Requirements">>, a.valley_summary, a.X, a.i, a.Y, a.j,
                               "combinatorial", <<KV("products", p.val)>>, "C")
            IN IF ~c.ok THEN StepRaise(c.err, tr, l)
               ELSE C_Loop(a,
                           Append(tr, TraceEvent(<<"product:combinatorial">>, c.val,
                                                 Result(Join(p.val, <<",", " ">>),
                                                        KLabels(Len(p.val))),
                                                 Extras(<<"Requirements">>, a.valley_summary,
                                                        p.val))),
                           l)
       ELSE C_Loop(a, tr, l)

\* a resolution that leaves no event behind
C_AfterResolveUntraced(a, tr, l, call, concept) ==
    C_Loop(a, tr, [l EXCEPT !.resolved_concepts = Append(@, concept), !.k = @ + 1])

\* a resolution whose concept is lost when a tracer is attached
C_AfterResolveLostWhenTraced(a, tr, l, call, concept) ==
    C_Loop(a, tr, [l EXCEPT !.resolved_concepts = Append(@, IF a.tracer THEN <<>> ELSE concept),
                            !.k = @ + 1])

\* compute_cell_C from the return of resolve_semantic_pair to the next call
C_AfterResolve(a, tr, l, call, concept) ==
    LET l1 == [l EXCEPT !.resolved_concepts = Append(@, concept), !.k = @ + 1]
        tr1 == IF a.tracer
               THEN Append(tr, TraceEvent(<<"product:k=", ToString(l.k)>>, call.context,
                                          Result(concept, Split(call.arg, Star)),
                                          Extras(<<"Requirements">>, a.valley_summary,
                                                 <<call.arg>>)))
               ELSE tr
    IN C_Loop(a, tr1, l1)

\* compute_cell_C from the return of apply_ontological_lens to its own return
\* a last step that hands back a cell of the left operand
C_AfterLensReturningOperand(a, tr, l, call, final_meaning) ==
    StepReturn(a.X.cells[a.i + 1][1], tr, l)

C_AfterLens(a, tr, l, call, final_meaning) ==
    LET tr1 == IF a.tracer
               THEN Append(tr, TraceEvent(<<"final">>, call.context,
                                          Result(final_meaning, l.resolved_concepts),
                                          PlanExtras(<<"Requirements">>, a.valley_summary,
                                                     <<"combinatorial", "semantic", "lensing">>)))
               ELSE tr
        coordinates == Coordinates(a.X, a.i, a.Y, a.j)
    IN IF ~coordinates.ok THEN StepRaise(coordinates.err, tr1, l)
       ELSE StepReturn(Cell(a.i, a.j, final_meaning,
                            [stage_1_products |-> l.raw_products,
                             stage_2_resolved |-> l.resolved_concepts,
                             stage_3_lensed |-> final_meaning,
                             operation |-> "compute_C",
                             coordinates |-> coordinates.val,
                             traced |-> a.tracer]),
                       tr1, l)

\* compute_cell_F from its entry to the resolve_semantic_pair call
F_Begin(a, tr) ==
    LET j_cell == CellValue(get_cell(a.X, a.i, a.j))
        c_cell == CellValue(get_cell(a.Y, a.i, a.j))
        element_pair == ProductPair(j_cell.val, c_cell.val)
        l == [element_pair |-> element_pair, resolved_concept |-> <<>>]
        c == MkContext(<<"Objectives">>, a.valley_summary, a.X, a.i, a.X, a.j,
                       "*", <<KV("pair", element_pair)>>, "F")
    IN IF ~j_cell.ok THEN StepRaise(j_cell.err, tr, l)
       ELSE IF ~c_cell.ok THEN StepRaise(c_cell.err, tr, l)
       ELSE IF ~c.ok THEN StepRaise(c.err, tr, l)
       ELSE StepCall("resolve_semantic_pair", element_pair, c.val, tr, l)

\* the lens handed the pair instead of the concept it was resolved into
F_AfterResolveLensesPair(a, tr, l, call, resolved_concept) ==
    LET l1 == [l EXCEPT !.resolved_concept = resolved_concept]
        c == MkContext(<<"Objectives">>, a.valley_summary, a.X, a.i, a.X, a.j,
                       "interpret", <<KV("content", l.element_pair)>>, "F")
    IN IF ~c.ok THEN StepRaise(c.err, tr, l1)
       ELSE StepCall("apply_ontological_lens", l.element_pair, c.val, tr, l1)

\* compute_cell_F from the return of resolve_semantic_pair to the lens call
F_AfterResolve(a, tr, l, call, resolved_concept) ==
    LET l1 == [l EXCEPT !.resolved_concept = resolved_concept]
        tr1 == IF a.tracer
               THEN Append(tr, TraceEvent(<<"element-wise">>, call.context,
                                          Result(resolved_concept, Split(l.element_pair, Star)),
                                          Extras(<<"Objectives">>, a.valley_summary,
                                                 <<l.element_pair>>)))
               ELSE tr
        c == MkContext(<<"Objectives">>, a.valley_summary, a.X, a.i, a.X, a.j,
                       "interpret", <<KV("content", resolved_concept)>>, "F")
    IN IF ~c.ok THEN StepRaise(c.err, tr1, l1)
       ELSE StepCall("apply_ontological_lens", resolved_concept, c.val, tr1, l1)

\* compute_cell_F from the return of apply_ontological_lens to its own return
F_AfterLens(a, tr, l, call, final_meaning) ==
    LET tr1 == IF a.tracer
               THEN Append(tr, TraceEvent(<<"final">>, call.context,
                                          Result(final_meaning, <<l.resolved_concept>>),
                                          PlanExtras(<<"Objectives">>, a.valley_summary,
                                                     <<"element-wise", "lensing">>)))
               ELSE tr
        coordinates == Coordinates(a.X, a.i, a.X, a.j)
    IN IF ~coordinates.ok THEN StepRaise(coordinates.err, tr1, l)
       ELSE StepReturn(Cell(a.i, a.j, final_meaning,
                            [stage_1_element_wise |-> l.element_pair,
                             stage_2_resolved |-> l.resolved_concept,
                             stage_3_lensed |-> final_meaning,
                             operation |-> "compute_F",
                             coordinates |-> coordinates.val,
                             traced |-> a.tracer]),
                       tr1, l)

\* the two cell values in each other's place
SynthesisStatementSwapped(a_value, problem, f_value) ==
    f_value
    \o <<" ", "applied", " ", "to", " ", "frame", " ", "the", " ", "problem", " ", "of", " ">>
    \o problem \o <<" ", "and", " ">> \o a_value
    \o <<" ", "to", " ", "resolve", " ", "the", " ", "problem">>

\* f"{a} applied to frame the problem of {problem} and {f} to resolve the problem"
SynthesisStatement(a_value, problem, f_value) ==
    a_value
    \o <<" ", "applied", " ", "to", " ", "frame", " ", "the", " ", "problem", " ", "of", " ">>
    \o problem \o <<" ", "and", " ">> \o f_value
    \o <<" ", "to", " ", "resolve", " ", "the", " ", "problem">>

\* synthesize_cell_D from its entry to the lens call
D_Begin(a, tr) ==
    LET a_cell == CellValue(get_cell(a.X, a.i, a.j))
        f_cell == CellValue(get_cell(a.Y, a.i, a.j))
        synthesis_statement == SynthesisStatement(a_cell.val, a.problem, f_cell.val)
        l == [synthesis_statement |-> synthesis_statement]
        c1 == MkContext(<<"Objectives">>, a.valley_summary, a.X, a.i, a.X, a.j, "synthesis",
                        <<KV("formula", synthesis_statement), KV("problem", a.problem)>>, "D")
        tr1 == IF a.tracer
               THEN Append(tr, TraceEvent(<<"synthesis">>, c1.val,
                                          Result(synthesis_statement,
                                                 <<a_cell.val, f_cell.val, a.problem>>),
                                          Extras(<<"Objectives">>, a.valley_summary,
                                                 <<synthesis_statement>>)))
               ELSE tr
        c2 == MkContext(<<"Objectives">>, a.valley_summary, a.X, a.i, a.X, a.j, "interpret",
                        <<KV("content", synthesis_statement), KV("problem", a.problem)>>, "D")
    IN IF ~a_cell.ok THEN StepRaise(a_cell.err, tr, l)
       ELSE IF ~f_cell.ok THEN StepRaise(f_cell.err, tr, l)
       ELSE IF a.tracer /\ ~c1.ok THEN StepRaise(c1.err, tr, l)
       ELSE IF ~c2.ok THEN StepRaise(c2.err, tr1, l)
       ELSE StepCall("apply_ontological_lens", synthesis_statement, c2.val, tr1, l)

\* synthesize_cell_D from the return of apply_ontological_lens to its own return
D_AfterLens(a, tr, l, call, final_meaning) ==
    LET tr1 == IF a.tracer
               THEN Append(tr, TraceEvent(<<"final">>, call.context,
                                          Result(final_meaning, <<l.synthesis_statement>>),
                                          PlanExtras(<<"Objectives">>, a.valley_summary,
                                                     <<"synthesis", "lensing">>)))
               ELSE tr
        coordinates == Coordinates(a.X, a.i, a.X, a.j)
    IN IF ~coordinates.ok THEN StepRaise(coordinates.err, tr1, l)
       ELSE StepReturn(Cell(a.i, a.j, final_meaning,
                            [stage_1_synthesis |-> l.synthesis_statement,
                             stage_2_lensed |-> final_meaning,
                             operation |-> "synthesize_D",
                             problem |-> a.problem,
                             coordinates |-> coordinates.val,
                             traced |-> a.tracer]),
                       tr1, l)

(***************************************************************************)
(* The cell functions as actions.                                          *)
(***************************************************************************)
HistEv(ev, what, outcome) == [ev |-> ev, what |-> what, outcome |-> outcome]

\* how the dispatch that has just returned went: "ok", or "degraded" when no
\* attempt succeeded, or "unavailable" when every attempt was a connection error
DispatchOutcome ==
    IF ret.phase # "error" THEN "ok"
    ELSE IF ~err_varied /\ last_err.cls = "APIConnectionError" THEN "unavailable"
    ELSE "degraded"

\* what a trace_stage call that fails raises
SinkErr == Err("OSError", "trace sink failed")

\* operations.py calls tracer.trace_stage outside any try block: when the
\* call that adds event number a.sink_fails_at raises, the exception leaves
\* the cell function there and the rest of the step does not happen
WithSink(a, tr, st) ==
    IF a.sink_fails_at \in (Len(tr) + 1)..Len(st.trace)
    THEN StepRaise(SinkErr, SubSeq(st.trace, 1, a.sink_fails_at - 1), st.loc)
    ELSE st

\* take a step: tracer events first, then the resolver call if one is issued
ApplyStep(step) ==
    \E st \in {WithSink(cargs, trace, s) : s \in {step}} :
        /\ cpc' = st.pc
        /\ loc' = st.loc
        /\ trace' = st.trace
        /\ rcall' = st.rcall
        /\ cres' = st.cres
        /\ hist' = hist
                   \o [n \in 1..(Len(st.trace) - Len(trace)) |->
                          HistEv("trace", st.trace[Len(trace) + n].stage, "")]
                   \o (IF st.pc = "wait" THEN <<HistEv("call", <<st.rcall.method>>, "")>>
                       ELSE <<>>)
        /\ UNCHANGED <<dvars, ndispatch, prev, cargs, rret, call_count, mvars, uvars>>

compute_cell_C_begin ==
    /\ cpc = "begin" /\ cargs.variant = "C"
    /\ ApplyStep(C_Begin(cargs, trace))

compute_cell_C_resolved ==
    /\ cpc = "resumed" /\ cargs.variant = "C" /\ rcall.method = "resolve_semantic_pair"
    /\ ApplyStep(C_AfterResolve(cargs, trace, loc, rcall, rret))

compute_cell_C_lensed ==
    /\ cpc = "resumed" /\ cargs.variant = "C" /\ rcall.method = "apply_ontological_lens"
    /\ ApplyStep(C_AfterLens(cargs, trace, loc, rcall, rret))

compute_cell_F_begin ==
    /\ cpc = "begin" /\ cargs.variant = "F"
    /\ ApplyStep(F_Begin(cargs, trace))

compute_cell_F_resolved ==
    /\ cpc = "resumed" /\ cargs.variant = "F" /\ rcall.method = "resolve_semantic_pair"
    /\ ApplyStep(F_AfterResolve(cargs, trace, loc, rcall, rret))

compute_cell_F_lensed ==
    /\ cpc = "resumed" /\ cargs.variant = "F" /\ rcall.method = "apply_ontological_lens"
    /\ ApplyStep(F_AfterLens(cargs, trace, loc, rcall, rret))

synthesize_cell_D_begin ==
    /\ cpc = "begin" /\ cargs.variant = "D"
    /\ ApplyStep(D_Begin(cargs, trace))

synthesize_cell_D_lensed ==
    /\ cpc = "resumed" /\ cargs.variant = "D" /\ rcall.method = "apply_ontological_lens"
    /\ ApplyStep(D_AfterLens(cargs, trace, loc, rcall, rret))

(***************************************************************************)
(* The resolvers as actions.  call_count is MockCellResolver's own field;  *)
(* for the other two resolvers it only observes the calls.                 *)
(***************************************************************************)
\* a resolver that answers at once: count the call, hand back the text
Answer(method, text) ==
    /\ cpc = "wait" /\ rcall.method = method
    /\ call_count' = [call_count EXCEPT ![method] = @ + 1]
    /\ rret' = text
    /\ cpc' = "resumed"
    /\ hist' = Append(hist, HistEv("return", <<method>>, "ok"))
    /\ UNCHANGED <<dvars, ndispatch, prev, cargs, loc, cres, rcall, trace, mvars, uvars>>

Mock_resolve_semantic_pair ==
    /\ resolver.kind = "mock"
    /\ Answer("resolve_semantic_pair", MockResolveSemanticPair(rcall.arg))

Mock_apply_ontological_lens ==
    /\ resolver.kind = "mock"
    /\ Answer("apply_ontological_lens", MockApplyOntologicalLens(rcall.arg, rcall.context))

Echo_resolve_semantic_pair ==
    /\ resolver.kind = "echo"
    /\ Answer("resolve_semantic_pair", EchoResolveSemanticPair(rcall.arg))

Echo_apply_ontological_lens ==
    /\ resolver.kind = "echo"
    /\ Answer("apply_ontological_lens", EchoApplyOntologicalLens(rcall.arg, rcall.context))

\* a CellResolver method from its entry to the first loop test of _call_openai;
\* an exception while the prompts are built passes through the cell function
Enter(method, prompts) ==
    /\ cpc = "wait" /\ resolver.kind = "openai" /\ dpc = "idle" /\ rcall.method = method
    /\ call_count' = [call_count EXCEPT ![method] = @ + 1]
    /\ \E built \in {prompts} :
         IF built.ok
         THEN /\ \E sys \in {built.val.system}, user \in {built.val.user} :
                    DispatchStart(sys, user, built.val.operation)
              /\ UNCHANGED <<cpc, cres>>
         ELSE /\ cpc' = "raised"
              /\ cres' = Fail(built.err)
              /\ UNCHANGED dvars
    /\ UNCHANGED <<ndispatch, prev, cargs, loc, rcall, rret, trace, hist, mvars, uvars>>

\* the locals of _call_openai are gone once it has returned
DispatchEnd ==
    /\ dpc' = "idle"
    /\ system_prompt' = <<>>
    /\ user_prompt' = <<>>
    /\ operation' = ""
    /\ temperature' = 0
    /\ prompt_hash_val' = Sha256(<<>>)
    /\ attempt' = 0
    /\ last_err' = NoneErr
    /\ log' = <<>>
    /\ attempt_err' = NoneErr
    /\ err_varied' = FALSE
    /\ ret' = NoRet
    /\ UNCHANGED resolver

\* a CellResolver method from the return of _call_openai to its own return;
\* an exception out of _call_openai passes through it and the cell function
Leave(method) ==
    /\ cpc = "wait" /\ resolver.kind = "openai" /\ rcall.method = method
    /\ dpc \in {"returned", "raised"}
    /\ IF dpc = "returned"
       THEN /\ rret' = ResponseText(ret.response)
            /\ cpc' = "resumed"
            /\ hist' = Append(hist, HistEv("return", <<method>>, DispatchOutcome))
            /\ UNCHANGED cres
       ELSE /\ cpc' = "raised"
            /\ cres' = Fail(attempt_err)
            /\ UNCHANGED <<rret, hist>>
    /\ DispatchEnd
    /\ UNCHANGED <<ndispatch, prev, cargs, loc, rcall, call_count, trace, mvars, uvars>>

resolve_semantic_pair ==
    /\ rcall.method = "resolve_semantic_pair"
    /\ Enter("resolve_semantic_pair", ResolvePrompts(resolver, rcall.arg, rcall.context))

resolve_semantic_pair_return ==
    /\ rcall.method = "resolve_semantic_pair"
    /\ Leave("resolve_semantic_pair")

apply_ontological_lens ==
    /\ rcall.method = "apply_ontological_lens"
    /\ Enter("apply_ontological_lens", LensPrompts(resolver, rcall.arg, rcall.context))

apply_ontological_lens_return ==
    /\ rcall.method = "apply_ontological_lens"
    /\ Leave("apply_ontological_lens")

(***************************************************************************)
(* The matrix wrappers: compute_matrix_C, compute_matrix_F and             *)
(* synthesize_matrix_D loop over range(3) x range(4) and call the cell     *)
(* function for each position.                                             *)
(***************************************************************************)
MatrixRows == 3
MatrixCols == 4

\* no constructor or helper invoked yet; a caller that invokes one on its own
\* does nothing else in that run
NoUnit == [fn |-> "none"]

NoArgs == [variant |-> "none"]

\* the arguments of a cell function; tracer tells whether one is passed, and
\* sink_fails_at which of its trace_stage calls raises (0: none does)
CellArgs(variant, i, j, X, Y, problem, valley_summary, tracer) ==
    [variant |-> variant, i |-> i, j |-> j, X |-> X, Y |-> Y, problem |-> problem,
     valley_summary |-> valley_summary, tracer |-> tracer, sink_fails_at |-> 0]

\* the call of a cell function: its frame is fresh
EnterCell(a) ==
    /\ cargs' = a
    /\ cpc' = "begin"
    /\ loc' = <<>>
    /\ cres' = NoCell
    /\ rcall' = NoCall
    /\ rret' = <<>>

\* the labels taken from the right operand
WrapperResultRightLabels(m, cells) ==
    Matrix(m.variant, IF m.variant = "C" THEN "Requirements" ELSE "Objectives",
           m.Y.row_labels, m.Y.col_labels, cells)

\* the Matrix a wrapper returns
WrapperResult(m, cells) ==
    IF m.variant = "C"
    THEN Matrix("C", "Requirements", m.X.row_labels, m.Y.col_labels, cells)
    ELSE IF m.variant = "F"
    THEN Matrix("F", "Objectives", m.X.row_labels, m.X.col_labels, cells)
    ELSE Matrix("D", "Objectives", m.X.row_labels, m.X.col_labels, cells)

\* a wrapper from its entry to its first call of the cell function
MatrixCall(variant, X, Y, problem, valley_summary, tracer, r) ==
    /\ mpc = "idle" /\ cpc = "idle"
    /\ ucall = NoUnit
    /\ margs' = [variant |-> variant, X |-> X, Y |-> Y, problem |-> problem,
                 valley_summary |-> valley_summary, tracer |-> tracer]
    /\ mloc' = [i |-> 0, j |-> 0, row_cells |-> <<>>, cells |-> <<>>]
    /\ mpc' = "loop"
    /\ mres' = NoCell
    /\ resolver' = r
    /\ call_count' = ZeroCounts
    /\ trace' = <<>>
    /\ hist' = <<>>
    /\ EnterCell(CellArgs(variant, 0, 0, X, Y, problem, valley_summary, tracer))
    /\ UNCHANGED <<dpc, system_prompt, user_prompt, operation, temperature, prompt_hash_val,
                   attempt, last_err, log, attempt_err, err_varied, ret, ndispatch, prev,
                   uvars>>

\* a wrapper from the return of the cell function to its next call of it, or
\* to its own return; an exception out of the cell function passes through
MatrixAfterCell(variant) ==
    /\ mpc = "loop" /\ margs.variant = variant /\ cpc \in {"done", "raised"}
    /\ IF cpc = "raised"
       THEN /\ mpc' = "raised"
            /\ mres' = Fail(cres.err)
            /\ UNCHANGED <<mloc, cpc, cargs, loc, cres, rcall, rret>>
       ELSE LET row_cells == Append(mloc.row_cells, cres.val)
                row_done == mloc.j + 1 >= MatrixCols
                cells == IF row_done THEN Append(mloc.cells, row_cells) ELSE mloc.cells
                i == IF row_done THEN mloc.i + 1 ELSE mloc.i
                j == IF row_done THEN 0 ELSE mloc.j + 1
            IN /\ mloc' = [i |-> i, j |-> j,
                           row_cells |-> IF row_done THEN <<>> ELSE row_cells,
                           cells |-> cells]
               /\ IF i >= MatrixRows
                  THEN /\ mpc' = "done"
                       /\ mres' = Ok(WrapperResult(margs, cells))
                       /\ cpc' = "idle"
                       /\ UNCHANGED <<cargs, loc, cres, rcall, rret>>
                  ELSE /\ EnterCell([cargs EXCEPT !.i = i, !.j = j])
                       /\ UNCHANGED <<mpc, mres>>
    /\ UNCHANGED <<dvars, ndispatch, prev, margs, call_count, trace, hist, uvars>>

(***************************************************************************)
(* A caller that dispatches directly.                                      *)
(***************************************************************************)
SystemPrompts == {<<"Custom", " ", "frame">>, <<"Custom", "\n", " ", "frame", " ">>}

UserPrompts ==
    { <<"f", "i">>, <<"LIG_FI">>, <<"f", " ", "i">>, <<" ", "f", "\t", "NBSP", "i", "\n">> }

Operations == {"multiply", "add", "interpret", "*", "+", "odot", "semantic"}

NoPrev == [set |-> FALSE, system |-> <<>>, user |-> <<>>, hash |-> Sha256(<<>>)]

CallOpenai ==
    /\ dpc \in {"idle", "returned"}
    /\ ucall = NoUnit
    /\ ndispatch < MaxDispatches
    /\ ndispatch' = ndispatch + 1
    /\ prev' = IF dpc = "returned"
               THEN [set |-> TRUE, system |-> system_prompt, user |-> user_prompt,
                     hash |-> ret.meta.promptHash]
               ELSE prev
    /\ \E sys \in SystemPrompts, user \in UserPrompts, op \in Operations :
         DispatchStart(sys, user, op)
    /\ UNCHANGED <<cvars, mvars, uvars>>

(***************************************************************************)
(* Callers of the cell functions and of the matrix wrappers.               *)
(***************************************************************************)
Variants == {"C", "F", "D"}

\* the names of a variant's operands: A and B, J and C, A and F
LeftName(variant) == IF variant = "F" THEN "J" ELSE "A"
RightName(variant) == IF variant = "C" THEN "B" ELSE IF variant = "F" THEN "C" ELSE "F"

\* an operand of a given shape: the canonical matrix when it has that shape
Operand(name, sh) ==
    IF name = "A" /\ sh = shape(MATRIX_A) THEN MATRIX_A
    ELSE IF name = "B" /\ sh = shape(MATRIX_B) THEN MATRIX_B
    ELSE IF name = "J" /\ sh = shape(MATRIX_J) THEN MATRIX_J
    ELSE TestMatrix(name, sh[1], sh[2])

Problem == <<"generating", " ", "knowledge">>

TestValley == <<"Test", " ", "valley">>

ProblemOf(variant) == IF variant = "D" THEN Problem ELSE <<>>

PipeShapesX == {<<3, 4>>, <<3, 3>>, <<2, 4>>, <<4, 4>>}
PipeShapesY == {<<4, 4>>, <<3, 4>>, <<3, 3>>}
PipeIndices == (0 - 1)..4
PipeValleys == {TestValley, <<>>}
PipeResolvers == {NewMockCellResolver, NewEchoResolverAdapter}

\* the call of a cell function with a fresh resolver and a fresh tracer
CallCellWith(variant, i, j, X, Y, valley_summary, tracer, r) ==
    /\ cpc = "idle" /\ mpc = "idle"
    /\ ucall = NoUnit
    /\ resolver' = r
    /\ call_count' = ZeroCounts
    /\ trace' = <<>>
    /\ hist' = <<>>
    /\ EnterCell(CellArgs(variant, i, j, X, Y, ProblemOf(variant), valley_summary, tracer))
    /\ UNCHANGED <<dpc, system_prompt, user_prompt, operation, temperature, prompt_hash_val,
                   attempt, last_err, log, attempt_err, err_varied, ret, ndispatch, prev,
                   mvars, uvars>>

\* a cell function called with a deterministic resolver, on operands of
\* matching and of mismatched shapes, at positions inside and outside them
CallCell ==
    /\ cpc = "idle"
    /\ \E variant \in Variants, shX \in PipeShapesX, shY \in PipeShapesY,
          i \in PipeIndices, j \in PipeIndices, valley_summary \in PipeValleys,
          tracer \in BOOLEAN, r \in PipeResolvers :
        CallCellWith(variant, i, j, Operand(LeftName(variant), shX),
                     Operand(RightName(variant), shY), valley_summary, tracer, r)

\* a matrix wrapper called with a deterministic resolver
CallMatrix ==
    /\ mpc = "idle"
    /\ \E variant \in Variants, shX \in PipeShapesX, shY \in PipeShapesY,
          valley_summary \in PipeValleys, tracer \in BOOLEAN, r \in PipeResolvers :
        MatrixCall(variant, Operand(LeftName(variant), shX),
                   Operand(RightName(variant), shY), ProblemOf(variant),
                   valley_summary, tracer, r)

compute_matrix_C ==
    /\ margs.variant = "C"
    /\ MatrixAfterCell("C")

compute_matrix_F ==
    /\ margs.variant = "F"
    /\ MatrixAfterCell("F")

synthesize_matrix_D ==
    /\ margs.variant = "D"
    /\ MatrixAfterCell("D")

\* a cell function called with the CellResolver on MaxK x MaxK operands, at
\* their corners and at row MaxK, which is out of range
CallCellOpenai ==
    /\ cpc = "idle"
    /\ \E variant \in Variants, i \in {0, MaxK - 1, MaxK}, j \in {0, MaxK - 1},
          tracer \in BOOLEAN :
        CallCellWith(variant, i, j, TestMatrix(LeftName(variant), MaxK, MaxK),
                     TestMatrix(RightName(variant), MaxK, MaxK), TestValley, tracer,
                     NewCellResolver)

\* a cell function called on fitting operands with a tracer of which one
\* trace_stage call raises, or none
CallCellFailingSink ==
    /\ cpc = "idle" /\ mpc = "idle"
    /\ \E variant \in Variants, i \in 0..(MatrixRows - 1), j \in 0..(MatrixCols - 1),
          n \in 0..(MatrixCols + 2), r \in PipeResolvers :
         LET X == Operand(LeftName(variant), <<MatrixRows, MatrixCols>>)
             Y == Operand(RightName(variant),
                          IF variant = "C" THEN <<MatrixCols, MatrixCols>>
                          ELSE <<MatrixRows, MatrixCols>>)
             a == CellArgs(variant, i, j, X, Y, ProblemOf(variant), TestValley, TRUE)
         IN EnterCell([a EXCEPT !.sink_fails_at = n])
            /\ resolver' = r
    /\ call_count' = ZeroCounts
    /\ trace' = <<>>
    /\ hist' = <<>>
    /\ UNCHANGED <<dpc, system_prompt, user_prompt, operation, temperature, prompt_hash_val,
                   attempt, last_err, log, attempt_err, err_varied, ret, ndispatch, prev,
                   mvars, uvars>>

\* the field values a caller hands to the SemanticContext constructor
ContextStations == {<<>>, <<"product">>}
ContextValleys == {<<>>, TestValley}
ContextOperations == {"", "*", "interpret"}
ContextTerms == {<<>>, [pair |-> <<"a", Star, "b">>]}
ContextLabels == {<<>>, <<"Normative">>}

\* a caller constructs a SemanticContext on its own (dataclass __init__, then __post_init__)
NewSemanticContext ==
    /\ cpc = "idle"
    /\ mpc = "idle"
    /\ ucall = NoUnit
    /\ \E station \in ContextStations, valley \in ContextValleys, op \in ContextOperations,
          terms \in ContextTerms, row \in ContextLabels, col \in ContextLabels :
         /\ ucall' = [fn |-> "SemanticContext", station_context |-> station,
                      valley_summary |-> valley, row_label |-> row, col_label |-> col,
                      operation_type |-> op, terms |-> terms]
         /\ uret' = SemanticContext(station, valley, row, col, op, terms, "C", 0, 0)
    /\ UNCHANGED <<dvars, ndispatch, prev, cvars, mvars>>

Init ==
    /\ resolver = NewCellResolver
    /\ dpc = "idle"
    /\ system_prompt = <<>>
    /\ user_prompt = <<>>
    /\ operation = ""
    /\ temperature = 0
    /\ prompt_hash_val = Sha256(<<>>)
    /\ attempt = 0
    /\ last_err = NoneErr
    /\ log = <<>>
    /\ attempt_err = NoneErr
    /\ err_varied = FALSE
    /\ ret = NoRet
    /\ ndispatch = 0
    /\ prev = NoPrev
    /\ cpc = "idle"
    /\ cargs = NoArgs
    /\ loc = <<>>
    /\ cres = NoCell
    /\ rcall = NoCall
    /\ rret = <<>>
    /\ call_count = ZeroCounts
    /\ trace = <<>>
    /\ hist = <<>>
    /\ mpc = "idle"
    /\ margs = NoArgs
    /\ mloc = <<>>
    /\ mres = NoCell
    /\ ucall = NoUnit
    /\ uret = NoCell

\* the texts a caller hands to _extract_json: every text of at most
\* MaxTextLen tokens over a brace, its closing brace and prose, and the
\* text "noise {"a":1} trailing"
MaxTextLen == 3

ExtractAlphabet == {"{", "}", "noise"}

NoiseExample == <<"noise", " ", "{", "\"a\":1", "}", " ", "trailing">>

ExtractTexts == UNION {[1..n -> ExtractAlphabet] : n \in 0..MaxTextLen} \cup {NoiseExample}

\* a caller invokes _extract_json on its own
Call_extract_json ==
    /\ dpc = "idle" /\ cpc = "idle" /\ mpc = "idle"
    /\ ucall = NoUnit
    /\ \E text \in ExtractTexts :
         /\ ucall' = [fn |-> "_extract_json", text |-> text]
         /\ uret' = _extract_json(text)
    /\ UNCHANGED <<dvars, ndispatch, prev, cvars, mvars>>

\* a constructor that looks at its api_key argument only
CellResolver_init_argument_only(library, api_key, env_key) ==
    IF ~library
    THEN Fail(Err("ImportError", "OpenAI package required. Install with: pip install openai"))
    ELSE IF api_key = <<>>
    THEN Fail(Err("ValueError", "OpenAI API key required"))
    ELSE Ok([resolver |-> NewCellResolver, client |-> [api_key |-> api_key]])

\* CellResolver.__init__: library says whether "from openai import OpenAI"
\* succeeded, api_key is the argument (<<>> for None or ""), env_key is
\* os.getenv("OPENAI_API_KEY") (<<>> for unset or ""). What it hands back is
\* the new object with its client, or the exception; an exception leaves no
\* object and no client behind.
CellResolver_init(library, api_key, env_key) ==
    IF ~library
    THEN Fail(Err("ImportError", "OpenAI package required. Install with: pip install openai"))
    ELSE LET key == IF api_key # <<>> THEN api_key ELSE env_key
         IN IF key = <<>>
            THEN Fail(Err("ValueError", "OpenAI API key required"))
            ELSE Ok([resolver |-> NewCellResolver, client |-> [api_key |-> key]])

ApiKeys == {<<>>, <<"sk-argument">>}
EnvKeys == {<<>>, <<"sk-environment">>}

\* a caller constructs a CellResolver
ConstructCellResolver ==
    /\ dpc = "idle" /\ cpc = "idle" /\ mpc = "idle"
    /\ ucall = NoUnit
    /\ \E library \in BOOLEAN, api_key \in ApiKeys, env_key \in EnvKeys :
         /\ ucall' = [fn |-> "CellResolver", library |-> library, api_key |-> api_key,
                      env_key |-> env_key]
         /\ uret' = CellResolver_init(library, api_key, env_key)
    /\ UNCHANGED <<dvars, ndispatch, prev, cvars, mvars>>

\* a caller runs the try block of _call_openai once, on its own, against
\* one behaviour of the service
TryOnce ==
    /\ dpc = "idle" /\ cpc = "idle" /\ mpc = "idle"
    /\ ucall = NoUnit
    /\ \E beh \in ServiceBehaviours :
         /\ ucall' = [fn |-> "try", service |-> beh]
         /\ uret' = TryBody(beh)
    /\ UNCHANGED <<dvars, ndispatch, prev, cvars, mvars>>

\* _call_openai driven directly
\* cell values out of which the pipeline builds a pair: a canonical word, a
\* canonical two-word value, and a resolved value that itself holds " * "
TermValues == {<<"Values">>, <<"Best", " ", "Practices">>, <<"x", Star, "y">>}

\* pairs a caller hands over without the separator
UnseparatedPairs == {<<"Values">>, <<>>}

\* f"{a} * {b}" for two cell values, or a caller's own string
PairInputs ==
    {[built |-> TRUE, a |-> a, b |-> b, pair |-> ProductPair(a, b)] :
        a \in TermValues, b \in TermValues}
    \cup {[built |-> FALSE, a |-> p, b |-> <<>>, pair |-> p] : p \in UnseparatedPairs}

\* resolve_semantic_pair called on its own with the stage-2 context of
\* compute_cell_C at (0, 0): the dispatch starts unless the split raises
Call_resolve_semantic_pair ==
    /\ dpc = "idle" /\ cpc = "idle" /\ mpc = "idle"
    /\ ucall = NoUnit
    /\ \E in \in PairInputs :
         LET c == MkContext(<<"Requirements">>, TestValley, MATRIX_A, 0, MATRIX_B, 0,
                            "*", <<KV("pair", in.pair)>>, "C")
             p == ResolvePrompts(resolver, in.pair, c.val)
         IN /\ ucall' = [fn |-> "resolve_semantic_pair", built |-> in.built, a |-> in.a,
                         b |-> in.b, pair |-> in.pair]
            /\ IF p.ok
               THEN /\ uret' = Ok(<<>>)
                    /\ DispatchStart(p.val.system, p.val.user, p.val.operation)
               ELSE /\ uret' = Fail(p.err)
                    /\ UNCHANGED dvars
    /\ UNCHANGED <<ndispatch, prev, cvars, mvars>>

\* the arguments a caller of assemble_prompt chooses among
PromptKinds == {"*", "interpret", "synthesize", "synthesis", "+"}
PromptInstructions == {<<>>, <<"Fuse", " ", "the", " ", "terms">>}

\* assemble_prompt called on its own
Call_assemble_prompt ==
    /\ dpc = "idle" /\ cpc = "idle" /\ mpc = "idle"
    /\ ucall = NoUnit
    /\ \E valley_summary \in PipeValleys, operation_type \in PromptKinds,
          operation_instructions \in PromptInstructions :
         /\ ucall' = [fn |-> "assemble_prompt", valley_summary |-> valley_summary,
                      operation_type |-> operation_type,
                      operation_instructions |-> operation_instructions]
         /\ uret' = assemble_prompt(valley_summary, <<"Requirements">>, <<"Normative">>,
                                    <<"Necessary">>, operation_type,
                                    <<KV("content", <<"Values">>)>>, operation_instructions)
    /\ UNCHANGED <<dvars, ndispatch, prev, cvars, mvars>>

(***************************************************************************)
(* validate.py: validate_cell and validate_matrix.  The argument of        *)
(* validate_cell is whatever the caller hands over: a Cell or, from the    *)
(* loop of validate_matrix, a row of the cells grid.                       *)
(***************************************************************************)
PyCell(cell) == [t |-> "Cell", v |-> cell]
PyList(items) == [t |-> "list", v |-> items]

\* validate.validate_cell: reading cell.row of a list raises; row and col of
\* a Cell are ints and its provenance a dict, so those tests never fail
validate_cell(cell) ==
    IF cell.t # "Cell"
    THEN Fail(Err("AttributeError", "'list' object has no attribute 'row'"))
    ELSE Ok((IF cell.v.row < 0
             THEN << <<"Invalid row position: ", ToString(cell.v.row)>> >> ELSE <<>>)
            \o (IF cell.v.col < 0
                THEN << <<"Invalid column position: ", ToString(cell.v.col)>> >> ELSE <<>>)
            \o (IF Strip(cell.v.value) = <<>>
                THEN << <<"Cell value must be a non-empty string">> >> ELSE <<>>))

\* the first row of the grid whose length is not cols, as the loop with its
\* break finds it
RowMismatch(cells, cols) ==
    IF \E r \in 1..Len(cells) : Len(cells[r]) # cols
    THEN LET r == CHOOSE x \in 1..Len(cells) :
                      /\ Len(cells[x]) # cols
                      /\ \A y \in 1..(x - 1) : Len(cells[y]) = cols
         IN << <<"row ", ToString(r - 1), " length mismatch: expected ", ToString(cols),
                 ", got ", ToString(Len(cells[r]))>> >>
    ELSE <<>>

\* validate.validate_matrix for a Matrix whose fields have their declared
\* types: the checks before the loop over matrix.cells, then the loop, whose
\* first item is a row of the grid
validate_matrix(matrix) ==
    LET rows == shape(matrix)[1]
        cols == shape(matrix)[2]
        errors ==
            (IF matrix.name = "" THEN << <<"Matrix missing name">> >> ELSE <<>>)
            \o (IF matrix.station = "" THEN << <<"Matrix missing station">> >> ELSE <<>>)
            \o (IF rows <= 0 \/ cols <= 0
                THEN << <<"Invalid dimensions: ", "(", ToString(rows), ", ", ToString(cols),
                          ")">> >>
                ELSE <<>>)
            \o (IF Len(matrix.cells) # rows
                THEN << <<"cells must be a 2D list with len == number of rows">> >>
                ELSE RowMismatch(matrix.cells, cols))
            \o (IF Len(matrix.row_labels) # rows
                THEN << <<"row_labels length does not match number of rows">> >> ELSE <<>>)
            \o (IF Len(matrix.col_labels) # cols
                THEN << <<"col_labels length does not match number of columns">> >>
                ELSE <<>>)
    IN IF matrix.cells = <<>> THEN Ok(errors)
       ELSE LET cell_errors == validate_cell(PyList(matrix.cells[1]))
            IN IF ~cell_errors.ok THEN Fail(cell_errors.err)
               ELSE Ok(errors \o cell_errors.val)

\* the matrices handed to validate_matrix: the canonical ones, matrices whose
\* labels outnumber or fall short of the grid, and matrices without cells
ValidatedMatrices ==
    {MATRIX_A, MATRIX_B, MATRIX_J, TestMatrix("A", 2, 2),
     [MATRIX_A EXCEPT !.row_labels = Append(@, <<"Reflective">>)],
     [MATRIX_J EXCEPT !.col_labels = SubSeq(@, 1, 3)],
     [TestMatrix("A", 2, 2) EXCEPT !.cells = <<>>],
     Matrix("", "Test", <<>>, <<>>, <<>>)}

ValidatedCells ==
    {MATRIX_A.cells[1][1], _create_cell(0 - 1, 0, <<"Values">>),
     _create_cell(0, 0 - 1, <<" ">>)}

Call_validate_matrix ==
    /\ dpc = "idle" /\ cpc = "idle" /\ mpc = "idle"
    /\ ucall = NoUnit
    /\ \E matrix \in ValidatedMatrices :
         /\ ucall' = [fn |-> "validate_matrix", matrix |-> matrix]
         /\ uret' = validate_matrix(matrix)
    /\ UNCHANGED <<dvars, ndispatch, prev, cvars, mvars>>

Call_validate_cell ==
    /\ dpc = "idle" /\ cpc = "idle" /\ mpc = "idle"
    /\ ucall = NoUnit
    /\ \E cell \in ValidatedCells :
         /\ ucall' = [fn |-> "validate_cell", cell |-> cell]
         /\ uret' = validate_cell(PyCell(cell))
    /\ UNCHANGED <<dvars, ndispatch, prev, cvars, mvars>>

Next ==
    \/ CallOpenai
    \/ Call_extract_json
    \/ TryOnce
    \/ ConstructCellResolver
    \/ Call_resolve_semantic_pair
    \/ Call_assemble_prompt
    \/ Call_validate_matrix
    \/ Call_validate_cell
    \/ Attempt /\ UNCHANGED <<ndispatch, prev, cvars, mvars, uvars>>
    \/ Sleep /\ UNCHANGED <<ndispatch, prev, cvars, mvars, uvars>>

Spec == Init /\ [][Next]_vars

\* the cell functions driven by the CellResolver, the service behind it
\* a caller dispatches on its own, once, for one operation kind
CallOpenaiKind ==
    /\ cpc = "idle" /\ dpc = "idle"
    /\ ucall = NoUnit
    /\ \E op \in Operations :
         /\ ucall' = [fn |-> "_call_openai", operation |-> op]
         /\ DispatchStart(SYSTEM_PROMPT, <<"f", "i">>, op)
    /\ UNCHANGED <<uret, ndispatch, prev, cvars, mvars>>

NextCell ==
    \/ CallCellOpenai
    \/ CallOpenaiKind
    \/ compute_cell_C_begin
    \/ compute_cell_C_resolved
    \/ compute_cell_C_lensed
    \/ compute_cell_F_begin
    \/ compute_cell_F_resolved
    \/ compute_cell_F_lensed
    \/ synthesize_cell_D_begin
    \/ synthesize_cell_D_lensed
    \/ resolve_semantic_pair
    \/ resolve_semantic_pair_return
    \/ apply_ontological_lens
    \/ apply_ontological_lens_return
    \/ Attempt /\ UNCHANGED <<ndispatch, prev, cvars, mvars, uvars>>
    \/ Sleep /\ UNCHANGED <<ndispatch, prev, cvars, mvars, uvars>>

SpecCell == Init /\ [][NextCell]_vars

\* the program runs on: a step that can be taken is taken (the service
\* call returns or raises, a sleep ends)
FairSpecCell == SpecCell /\ WF_vars(NextCell)

\* the cell functions and the matrix wrappers driven by the deterministic
\* resolvers
NextPipe ==
    \/ NewSemanticContext
    \/ CallCell
    \/ CallMatrix
    \/ compute_cell_C_begin
    \/ compute_cell_C_resolved
    \/ compute_cell_C_lensed
    \/ compute_cell_F_begin
    \/ compute_cell_F_resolved
    \/ compute_cell_F_lensed
    \/ synthesize_cell_D_begin
    \/ synthesize_cell_D_lensed
    \/ Mock_resolve_semantic_pair
    \/ Mock_apply_ontological_lens
    \/ Echo_resolve_semantic_pair
    \/ Echo_apply_ontological_lens
    \/ compute_matrix_C
    \/ compute_matrix_F
    \/ synthesize_matrix_D

SpecPipe == Init /\ [][NextPipe]_vars

\* the cell functions with a tracer that may fail
(***************************************************************************)
(* A caller that computes cells of C in an order of its own choosing, on   *)
(* one resolver, while concurrent cell computations use that resolver.     *)
(***************************************************************************)
\* cells the caller computes before it stops
MaxCells == 3

\* resolver calls that concurrent cell computations make meanwhile
MaxInterleaved == 2

AllCoordinates == (0..(MatrixRows - 1)) \X (0..(MatrixCols - 1))

\* the n-th coordinate in row-major order, counted from 0
RowMajor(n) == <<n \div MatrixCols, n % MatrixCols>>

\* the caller files each Cell in the next free row-major slot
GatheredInArrivalOrder(cells, coord, cell) ==
    LET slot == RowMajor(Cardinality(DOMAIN cells))
    IN [c \in DOMAIN cells \cup {slot} |-> IF c = slot THEN cell ELSE cells[c]]

\* the caller files each Cell under the coordinate it asked for
Gathered(cells, coord, cell) ==
    [c \in DOMAIN cells \cup {coord} |-> IF c = coord THEN cell ELSE cells[c]]

CallAnyOrder ==
    /\ mpc = "idle" /\ cpc = "idle"
    /\ ucall = NoUnit
    /\ \E coord \in AllCoordinates, r \in PipeResolvers :
         /\ margs' = [variant |-> "C", X |-> MATRIX_A, Y |-> MATRIX_B, problem |-> <<>>,
                      valley_summary |-> TestValley, tracer |-> FALSE]
         /\ mloc' = [i |-> coord[1], j |-> coord[2], row_cells |-> <<>>, cells |-> <<>>,
                     interleaved |-> 0]
         /\ resolver' = r
         /\ EnterCell(CellArgs("C", coord[1], coord[2], MATRIX_A, MATRIX_B, <<>>,
                               TestValley, FALSE))
    /\ mpc' = "scatter"
    /\ mres' = NoCell
    /\ call_count' = ZeroCounts
    /\ trace' = <<>>
    /\ hist' = <<>>
    /\ UNCHANGED <<dpc, system_prompt, user_prompt, operation, temperature, prompt_hash_val,
                   attempt, last_err, log, attempt_err, err_varied, ret, ndispatch, prev,
                   uvars>>

\* the caller has a Cell back: it files it and asks for any coordinate it
\* has not computed yet, or stops
AnyOrderAfterCell ==
    /\ mpc = "scatter" /\ cpc = "done"
    /\ \E cells \in {Gathered(mloc.cells, <<cargs.i, cargs.j>>, cres.val)} :
         IF Cardinality(DOMAIN cells) < MaxCells
         THEN /\ \E coord \in AllCoordinates \ DOMAIN cells :
                   /\ mloc' = [mloc EXCEPT !.i = coord[1], !.j = coord[2], !.cells = cells]
                   /\ EnterCell([cargs EXCEPT !.i = coord[1], !.j = coord[2]])
              /\ hist' = <<>>
              /\ UNCHANGED <<mpc, mres>>
         ELSE /\ mloc' = [mloc EXCEPT !.cells = cells]
              /\ mpc' = "gathered"
              /\ mres' = Ok(cells)
              /\ cpc' = "idle"
              /\ UNCHANGED <<cargs, loc, cres, rcall, rret, hist>>
    /\ UNCHANGED <<dvars, ndispatch, prev, margs, call_count, trace, uvars>>

\* a concurrent cell computation calls the shared resolver
InterleavedResolverCall ==
    /\ mpc = "scatter" /\ cpc \in {"wait", "resumed"}
    /\ mloc.interleaved < MaxInterleaved
    /\ mloc' = [mloc EXCEPT !.interleaved = @ + 1]
    /\ \E method \in {"resolve_semantic_pair", "apply_ontological_lens"} :
         call_count' = [call_count EXCEPT ![method] = @ + 1]
    /\ UNCHANGED <<dvars, ndispatch, prev, cpc, cargs, loc, cres, rcall, rret, trace, hist, mpc, margs, mres, uvars>>

\* compute_matrix_C called on the canonical operands
CallMatrixC ==
    /\ mpc = "idle"
    /\ \E tracer \in BOOLEAN, r \in PipeResolvers :
        MatrixCall("C", MATRIX_A, MATRIX_B, <<>>, TestValley, tracer, r)

NextOrder ==
    \/ CallAnyOrder
    \/ AnyOrderAfterCell
    \/ InterleavedResolverCall
    \/ CallMatrixC
    \/ compute_matrix_C
    \/ compute_cell_C_begin
    \/ compute_cell_C_resolved
    \/ compute_cell_C_lensed
    \/ Mock_resolve_semantic_pair
    \/ Mock_apply_ontological_lens
    \/ Echo_resolve_semantic_pair
    \/ Echo_apply_ontological_lens

SpecOrder == Init /\ [][NextOrder]_vars

(***************************************************************************)
(* The compute-cell command of the CLI, with the echo resolver.            *)
(***************************************************************************)
\* positional parameters of the core functions: required, and in all
Signatures ==
    [compute_cell_C |-> [required |-> 6, total |-> 7],
     compute_cell_F |-> [required |-> 6, total |-> 7],
     synthesize_cell_D |-> [required |-> 7, total |-> 8],
     compute_matrix_C |-> [required |-> 4, total |-> 5],
     compute_matrix_F |-> [required |-> 4, total |-> 5]]

\* binding nargs positional arguments to the parameters of fn
PyBind(fn, nargs) ==
    IF nargs > Signatures[fn].total
    THEN Fail(Err("TypeError", "takes from required to total positional arguments but more were given"))
    ELSE IF nargs < Signatures[fn].required
    THEN Fail(Err("TypeError", "missing required positional arguments"))
    ELSE Ok(fn)

\* the core calls compute-cell makes for a matrix kind, in order, each with
\* the number of positional arguments it passes
CoreCalls(matrix) ==
    IF matrix = "C" THEN <<[fn |-> "compute_cell_C", nargs |-> 8]>>
    ELSE IF matrix = "F"
    THEN <<[fn |-> "compute_matrix_C", nargs |-> 6], [fn |-> "compute_cell_F", nargs |-> 8]>>
    ELSE <<[fn |-> "compute_matrix_C", nargs |-> 6], [fn |-> "compute_matrix_F", nargs |-> 6],
           [fn |-> "synthesize_cell_D", nargs |-> 9]>>

CliEnd(exit_code, echoed) == [exit_code |-> exit_code, echoed |-> echoed]

\* the finally block
CliFinally(tracer_obj, exporter_obj) ==
    (IF tracer_obj THEN <<"Trace file closed.">> ELSE <<>>)
    \o (IF exporter_obj THEN <<"Neo4j connection closed.">> ELSE <<>>)

\* compute_cell of cli.py with --resolver echo: what it prints and its exit
\* code. exporter_works says whether Neo4jWorkingMemoryExporter() can be
\* constructed. The value printed after "Result:" is the value of the Cell
\* the cell function returned.
compute_cell(matrix, row, col, tracing, neo4j_export, exporter_works) ==
    LET setup == <<"Using Echo resolver (deterministic mock)">>
                 \o (IF tracing THEN <<"Tracing enabled -> traces/">> ELSE <<>>)
        calls == CoreCalls(matrix)
        unbound == {n \in 1..Len(calls) : ~PyBind(calls[n].fn, calls[n].nargs).ok}
    IN IF neo4j_export /\ ~exporter_works
       THEN CliEnd(1, setup \o <<"Error: ", "neo4j">> \o CliFinally(tracing, FALSE))
       ELSE LET ready == setup
                         \o (IF neo4j_export THEN <<"Neo4j export enabled">> ELSE <<>>)
                         \o <<"Computing ", matrix>>
            IN IF unbound # {}
               THEN CliEnd(1, ready \o <<"Error: ", "TypeError">>
                              \o CliFinally(tracing, neo4j_export))
               ELSE CliEnd(0, ready \o <<"Result:">> \o CliFinally(tracing, neo4j_export))

\* a user runs "chirality compute-cell MATRIX --i ROW --j COL" with the
\* echo resolver
RunComputeCell ==
    /\ dpc = "idle" /\ cpc = "idle" /\ mpc = "idle"
    /\ ucall = NoUnit
    /\ \E matrix \in Variants, row \in 0..2, col \in 0..3, tracing \in BOOLEAN,
          neo4j_export \in BOOLEAN, exporter_works \in BOOLEAN :
         /\ ucall' = [fn |-> "compute-cell", matrix |-> matrix, row |-> row, col |-> col,
                      resolver |-> "echo", trace |-> tracing, neo4j_export |-> neo4j_export,
                      exporter_works |-> exporter_works]
         /\ uret' = compute_cell(matrix, row, col, tracing, neo4j_export, exporter_works)
    /\ UNCHANGED <<dvars, ndispatch, prev, cvars, mvars>>

NextCli == RunComputeCell

SpecCli == Init /\ [][NextCli]_vars

NextSink ==
    \/ CallCellFailingSink
    \/ compute_cell_C_begin
    \/ compute_cell_C_resolved
    \/ compute_cell_C_lensed
    \/ compute_cell_F_begin
    \/ compute_cell_F_resolved
    \/ compute_cell_F_lensed
    \/ synthesize_cell_D_begin
    \/ synthesize_cell_D_lensed
    \/ Mock_resolve_semantic_pair
    \/ Mock_apply_ontological_lens
    \/ Echo_resolve_semantic_pair
    \/ Echo_apply_ontological_lens

SpecSink == Init /\ [][NextSink]_vars

(***************************************************************************)
(* Properties of _call_openai (checked under Spec).                        *)
(***************************************************************************)
CallPositions == {n \in 1..Len(log) : log[n].ev = "call"}
SleepPositions == {n \in 1..Len(log) : log[n].ev = "sleep"}
NumCalls == Cardinality(CallPositions)
AllCallsFailed == \A n \in CallPositions : ~log[n].ok
Degraded == dpc = "returned" /\ ret.phase = "error"
Succeeded == dpc = "returned" /\ ret.phase = "ok"

\* C1: _call_openai never raises to its caller: whatever the service does on
\* each attempt (raises, answers with no choices, empty text, prose without
\* a JSON object, unparseable JSON, JSON violating the schema, a valid
\* object), the call never ends in a propagated exception, and what it
\* returns is an (outcome, metadata) pair.
C1_NeverRaises ==
    /\ dpc # "raised"
    /\ dpc = "returned" =>
          /\ ret.phase \in {"ok", "error"}
          /\ {"response", "meta"} \subseteq DOMAIN ret
          /\ {"text", "terms_used", "warnings"} \subseteq DOMAIN ret.response

\* a dispatch whose attempts failed in different ways, the last one on
\* unparseable JSON, and which still returned
C1_Witness ==
    /\ Degraded
    /\ err_varied
    /\ attempt_err.cls = "JSONDecodeError"

\* C2: a service that fails on every attempt is called exactly
\* max_retries + 1 = 4 times and only then does the dispatch return the
\* degraded outcome; no dispatch makes more than max_retries + 1 calls.
C2_RetryBudget ==
    /\ NumCalls <= resolver.max_retries + 1
    /\ (dpc = "returned" /\ AllCallsFailed) =>
          (NumCalls = resolver.max_retries + 1 /\ ret.phase = "error")
    /\ Degraded => (NumCalls = 4 /\ AllCallsFailed)
    /\ (AllCallsFailed /\ NumCalls < resolver.max_retries + 1) => dpc # "returned"

C2_Witness == Degraded /\ NumCalls = 4 /\ AllCallsFailed

\* C3: when attempt a (0-based) fails and a < max_retries, the loop sleeps
\* exactly base_delay * 2^a before attempt a + 1 starts; nothing is slept
\* after the last permitted attempt fails, nor after a successful attempt.
C3_BackoffAfterFailure ==
    /\ \A n \in CallPositions :
          IF ~log[n].ok /\ log[n].n < resolver.max_retries
          THEN IF n = Len(log)
               THEN dpc = "sleep"
               ELSE /\ log[n + 1].ev = "sleep"
                    /\ log[n + 1].n = resolver.base_delay * (2 ^ log[n].n)
                    /\ (n + 2 <= Len(log)) =>
                          (log[n + 2].ev = "call" /\ log[n + 2].n = log[n].n + 1)
          ELSE n = Len(log) /\ dpc \in {"returned", "raised"}
    /\ \A n \in SleepPositions :
          n > 1 /\ log[n - 1].ev = "call" /\ ~log[n - 1].ok
                /\ log[n - 1].n < resolver.max_retries

\* three failures, three sleeps of 0.4 s, 0.8 s and 1.6 s, then a fourth call
C3_Witness ==
    /\ Len(log) = 7
    /\ log[2].n = 4 /\ log[4].n = 8 /\ log[6].n = 16
    /\ log[7].ev = "call"

\* C4 as stated: the sleep right before attempt k (k >= 1) lasts
\* base_delay * 2^k.
C4_DelayBeforeAttemptK_Original ==
    \A n \in CallPositions :
        log[n].n >= 1 =>
            (log[n - 1].ev = "sleep" /\ log[n - 1].n = resolver.base_delay * (2 ^ log[n].n))

\* C4 (amended): the sleep right before attempt k (0-based, k >= 1) lasts
\* base_delay * 2^(k-1): it is computed from the index of the attempt that
\* failed, not of the attempt that follows.
C4_DelayBeforeAttemptK ==
    \A n \in CallPositions :
        log[n].n >= 1 =>
            /\ n > 1
            /\ log[n - 1].ev = "sleep"
            /\ log[n - 1].n = resolver.base_delay * (2 ^ (log[n].n - 1))

C4_Witness == \E n \in CallPositions : log[n].n = 3 /\ log[n - 1] = SleepEv(16)

\* C5: when every attempt failed the outcome is exactly
\* "ERROR: Failed to process <kind>", terms_used is empty, warnings holds
\* one entry whose reason is the error of the last attempt, and the metadata
\* carries that same error.
C5_DegradedOutcome ==
    Degraded =>
        LET last == log[Len(log)]
        IN /\ last.ev = "call" /\ ~last.ok /\ attempt_err # NoneErr
           /\ ret.response.text = JStr(<<"ERROR: Failed to process ", operation>>)
           /\ ret.response.terms_used = JList(<<>>)
           /\ Len(ret.response.warnings.l) > 0
           /\ ret.response.warnings.l[1] = JItem("str", <<"openai_failure: ", attempt_err.msg>>)
           /\ ret.meta.error = attempt_err.msg
           /\ ret.meta.phase = "error"

\* the attempts failed for different reasons, the last one on its warnings
C5_Witness ==
    /\ Degraded
    /\ err_varied
    /\ attempt_err.msg = "'warnings' must be list[str]"
    /\ operation = "interpret"

\* str.split(): the maximal runs of non-whitespace characters
RECURSIVE Words(_)
Words(s) ==
    LET t == LStrip(s)
        WordEnd(u) == IF \E p \in 1..Len(u) : u[p] \in Whitespace
                      THEN (CHOOSE p \in 1..Len(u) :
                               u[p] \in Whitespace /\ \A q \in 1..(p - 1) : u[q] \notin Whitespace) - 1
                      ELSE Len(u)
    IN IF t = <<>> THEN <<>>
       ELSE <<SubSeq(t, 1, WordEnd(t))>> \o Words(SubSeq(t, WordEnd(t) + 1, Len(t)))

\* the two texts differ at most in their whitespace
SameButWhitespace(s, t) == Words(s) = Words(t)

\* C6: the prompt hash depends only on the normalized system and user
\* prompts: it is fixed before the first service call and never changes, the
\* success and the failure metadata carry it, a later dispatch whose prompts
\* are identical, or differ only in whitespace, or normalize to the same
\* texts, gets the same hash whatever the service did in either dispatch,
\* and normalizing twice changes nothing.
C6_PromptHash ==
    /\ dpc \in {"try", "sleep", "returned"} =>
          prompt_hash_val =
             Sha256(normalize_text(system_prompt) \o <<"\n", "\n">> \o normalize_text(user_prompt))
    /\ dpc = "returned" => ret.meta.promptHash = prompt_hash_val
    /\ (dpc = "returned" /\ prev.set) =>
          /\ (SameButWhitespace(prev.system, system_prompt)
                /\ SameButWhitespace(prev.user, user_prompt))
                => ret.meta.promptHash = prev.hash
          /\ (normalize_text(prev.system) = normalize_text(system_prompt)
                /\ normalize_text(prev.user) = normalize_text(user_prompt))
                => ret.meta.promptHash = prev.hash
    /\ normalize_text(normalize_text(user_prompt)) = normalize_text(user_prompt)
    /\ normalize_text(normalize_text(system_prompt)) = normalize_text(system_prompt)

\* a failed dispatch after another one whose prompts differed in whitespace
C6_Witness ==
    /\ Degraded
    /\ prev.set
    /\ prev.user # user_prompt /\ SameButWhitespace(prev.user, user_prompt)
    /\ prev.system # system_prompt /\ SameButWhitespace(prev.system, system_prompt)
    /\ ret.meta.promptHash = prev.hash

(***************************************************************************)
(* The cell functions: what a caller may rely on.                          *)
(***************************************************************************)
\* i and j lie inside the result: for variant C the rows of the left operand
\* and the columns of the right one, else the shape of the left operand
InRange(a) ==
    /\ 0 <= a.i /\ a.i < shape(a.X)[1]
    /\ 0 <= a.j
    /\ a.j < (IF a.variant = "C" THEN shape(a.Y)[2] ELSE shape(a.X)[2])

\* A.cols = B.rows for variant C; equal shapes for variants F and D
ShapesMatch(a) ==
    IF a.variant = "C" THEN shape(a.X)[2] = shape(a.Y)[1] ELSE shape(a.X) = shape(a.Y)

Called(a) == a.variant # "none"

ValidInputs(a) == Called(a) /\ InRange(a) /\ ShapesMatch(a) /\ a.valley_summary # <<>>

PreconditionViolated(a) == Called(a) /\ (~InRange(a) \/ ~ShapesMatch(a))

\* the outcomes of the resolver calls that have returned, in order
ReturnOutcomes ==
    LET returns == SelectSeq(hist, LAMBDA e : e.ev = "return")
    IN [n \in 1..Len(returns) |-> returns[n].outcome]

DegradedLensText == <<"ERROR: Failed to process ", "interpret">>

\* C7: for valid inputs (in-range i and j, matching shapes, non-empty valley
\* summary) a cell function driven by the CellResolver never raises, whatever
\* the service does on each attempt; it ends in done with a Cell at (i, j);
\* when no attempt of the lens dispatch succeeded (the service unavailable
\* among the cases) the Cell's value is "ERROR: Failed to process interpret".
C7_ValidRunReturnsCell ==
    /\ [](ValidInputs(cargs) => cpc # "raised")
    /\ []((ValidInputs(cargs) /\ cpc = "done") =>
            /\ cres.ok
            /\ cres.val.row = cargs.i /\ cres.val.col = cargs.j
            /\ (ReturnOutcomes[Len(ReturnOutcomes)] # "ok" =>
                    cres.val.value = DegradedLensText))
    /\ ((ValidInputs(cargs) /\ cpc = "begin") ~> (cpc = "done"))

\* compute_cell_C has returned a Cell although every attempt of every one of
\* its dispatches (MaxK for the pairs, one for the lens) was a connection error
C7_Witness ==
    /\ cpc = "done" /\ cargs.variant = "C" /\ ValidInputs(cargs)
    /\ Len(ReturnOutcomes) = MaxK + 1
    /\ \A n \in 1..Len(ReturnOutcomes) : ReturnOutcomes[n] = "unavailable"
    /\ cres.ok /\ cres.val.value = DegradedLensText

\* C8: a cell function called with i or j out of range, or with operands
\* whose shapes do not fit, raises, and no resolver call has been made
\* before it does.  (A call made by a caller directly, not by a wrapper.)
C8_PreconditionViolationRaises ==
    (mpc = "idle" /\ PreconditionViolated(cargs)) =>
        /\ cpc \in {"begin", "raised"}
        /\ call_count = ZeroCounts

\* the stage-1 products the contract promises for compute_cell_C(i, j, A, B)
ExpectedProducts(a) ==
    [n \in 1..shape(a.X)[2] |->
        a.X.cells[a.i + 1][n].value \o <<" * ">> \o a.Y.cells[n][a.j + 1].value]

\* C9: for valid (i, j, A, B) compute_cell_C records exactly A.shape[1]
\* stage-1 products, in increasing k, the k-th being
\* A.cell(i,k).value + " * " + B.cell(k,j).value: in its locals from stage 2
\* on and in the provenance of the Cell it returns.
C9_StageOneProducts ==
    (cargs.variant = "C" /\ ValidInputs(cargs)) =>
        /\ (cpc \in {"wait", "resumed", "done"} =>
              /\ Len(loc.raw_products) = shape(cargs.X)[2]
              /\ loc.raw_products = ExpectedProducts(cargs))
        /\ (cpc = "done" =>
              cres.val.provenance.stage_1_products = ExpectedProducts(cargs))

\* compute_cell_C(0, 0, MATRIX_A, MATRIX_B) has returned its Cell: four
\* products, the last one pairing A[0][3] with B[3][0]
C9_Witness ==
    /\ cpc = "done" /\ cargs.variant = "C" /\ ValidInputs(cargs)
    /\ cargs.X = MATRIX_A /\ cargs.Y = MATRIX_B /\ cargs.i = 0 /\ cargs.j = 0
    /\ Len(cres.val.provenance.stage_1_products) = 4
    /\ cres.val.provenance.stage_1_products[1] = <<"Values", " * ", "Necessary">>
    /\ cres.val.provenance.stage_1_products[4] = <<"Feedback", " * ", "Best", " ", "Practices">>

\* C10: a compute_cell_C run on valid inputs makes A.shape[1] calls of
\* resolve_semantic_pair and one of apply_ontological_lens; a compute_matrix_C
\* run that returns has made 12 * A.shape[1] and 12 (48 and 12 for the
\* canonical 3x4 and 4x4 operands).
C10_ResolverCallCounts ==
    /\ (mpc = "idle" /\ cpc = "done" /\ cargs.variant = "C" /\ ValidInputs(cargs)) =>
          /\ call_count.resolve_semantic_pair = shape(cargs.X)[2]
          /\ call_count.apply_ontological_lens = 1
    /\ (mpc = "done" /\ margs.variant = "C") =>
          /\ call_count.resolve_semantic_pair = 12 * shape(margs.X)[2]
          /\ call_count.apply_ontological_lens = 12
          /\ ((margs.X = MATRIX_A /\ margs.Y = MATRIX_B) =>
                call_count.resolve_semantic_pair = 48)

\* compute_matrix_C(MATRIX_A, MATRIX_B) has returned its Matrix
C10_Witness ==
    /\ mpc = "done" /\ margs.variant = "C"
    /\ margs.X = MATRIX_A /\ margs.Y = MATRIX_B
    /\ mres.ok /\ Len(mres.val.cells) = 3 /\ Len(mres.val.cells[3]) = 4
    /\ call_count.resolve_semantic_pair = 48
    /\ call_count.apply_ontological_lens = 12

(***************************************************************************)
(* The cell functions: the order of their stages (checked under SpecPipe). *)
(* hist holds, in the order they happened, the tracer's events and the     *)
(* calls and returns of the resolver since the caller's call.              *)
(***************************************************************************)
\* a cell function called by a caller directly has got past its first stage
DirectRun(variant) ==
    mpc = "idle" /\ cargs.variant = variant /\ cpc \in {"wait", "resumed", "done"}

CallsAndReturns == SelectSeq(hist, LAMBDA e : e.ev \in {"call", "return"})

TraceStages ==
    LET events == SelectSeq(hist, LAMBDA e : e.ev = "trace")
    IN [n \in 1..Len(events) |-> events[n].what]

\* what the resolver at hand answers to a pair
ResolverAnswer(pair) ==
    IF resolver.kind = "mock" THEN MockResolveSemanticPair(pair)
    ELSE EchoResolveSemanticPair(pair)

\* the texts in their order, ", " between one and the next
RECURSIVE CommaSeparated(_)
CommaSeparated(texts) ==
    IF texts = <<>> THEN <<>>
    ELSE IF Len(texts) = 1 THEN texts[1]
    ELSE CommaSeparated(SubSeq(texts, 1, Len(texts) - 1)) \o <<",", " ">> \o texts[Len(texts)]

\* C11: in compute_cell_C all K products exist before the first resolver
\* call; calls and returns alternate (no call is issued before the one before
\* it has returned); the first K calls are resolve_semantic_pair, for the
\* products in index order, the k-th concept being the answer to the k-th
\* product; apply_ontological_lens is called once, after the K-th return, on
\* the K concepts joined with ", " in that order.
C11_StagesInOrder ==
    DirectRun("C") =>
        LET K == shape(cargs.X)[2]
            cr == CallsAndReturns
            resolved == loc.resolved_concepts
            \* the resolution has returned, its concept is not appended yet
            returned == cpc = "resumed" /\ rcall.method = "resolve_semantic_pair"
        IN /\ Len(loc.raw_products) = K
           /\ Len(cr) >= 1 /\ Len(cr) <= 2 * (K + 1)
           /\ \A n \in 1..Len(cr) :
                 /\ cr[n].ev = (IF n % 2 = 1 THEN "call" ELSE "return")
                 /\ cr[n].what = (IF n <= 2 * K THEN <<"resolve_semantic_pair">>
                                  ELSE <<"apply_ontological_lens">>)
           /\ Len(resolved) = (IF Len(cr) <= 2 * K THEN Len(cr) \div 2 ELSE K)
                                - (IF returned THEN 1 ELSE 0)
           /\ \A k \in 1..Len(resolved) : resolved[k] = ResolverAnswer(loc.raw_products[k])
           /\ rcall.method = "resolve_semantic_pair" =>
                 /\ rcall.arg = loc.raw_products[Len(resolved) + 1]
                 /\ returned => rret = ResolverAnswer(rcall.arg)
           /\ rcall.method = "apply_ontological_lens" =>
                 /\ Len(resolved) = K
                 /\ rcall.arg = CommaSeparated(resolved)
           /\ cpc = "done" => Len(cr) = 2 * (K + 1)

\* compute_cell_C(0, 0, MATRIX_A, MATRIX_B) with the mock resolver waits for
\* the lens: four resolutions have returned, in the order of the products
C11_Witness ==
    /\ DirectRun("C") /\ cpc = "wait" /\ rcall.method = "apply_ontological_lens"
    /\ cargs.X = MATRIX_A /\ cargs.Y = MATRIX_B /\ cargs.i = 0 /\ cargs.j = 0
    /\ resolver.kind = "mock"
    /\ Len(CallsAndReturns) = 9
    /\ loc.resolved_concepts[1] = <<"Essential", " ", "Values">>
    /\ loc.resolved_concepts[4] = <<"Optimal", " ", "Reference", " ", "Points">>
    /\ rcall.arg = <<"Essential", " ", "Values", ",", " ", "Conditional", " ", "Actions",
                     ",", " ", "Foundational", " ", "Benchmarks", ",", " ",
                     "Optimal", " ", "Reference", " ", "Points">>


\* a cell function has returned its Cell, to a caller or to a wrapper
Returned(variant) == cargs.variant = variant /\ cpc = "done"

\* "(<row label>, <column label>)"
CoordinateString(row_label, col_label) ==
    <<"(">> \o row_label \o <<",", " ">> \o col_label \o <<")">>

\* C12: the Cell compute_cell_C(i, j, A, B, ...) returns has row i, col j,
\* the lensed text as its value, and a provenance with the A.shape[1]
\* products, as many resolved concepts, the lensed text, the tag "compute_C"
\* and the coordinates "(<A.row_labels[i]>, <B.col_labels[j]>)".
C12_CellOfC ==
    Returned("C") =>
        LET cell == cres.val
            p == cell.provenance
        IN /\ cres.ok
           /\ cell.row = cargs.i /\ cell.col = cargs.j
           /\ cell.value = p.stage_3_lensed
           /\ cell.value = rret
           /\ Len(p.stage_1_products) = shape(cargs.X)[2]
           /\ Len(p.stage_2_resolved) = Len(p.stage_1_products)
           /\ p.stage_1_products = loc.raw_products
           /\ p.stage_2_resolved = loc.resolved_concepts
           /\ p.operation = "compute_C"
           /\ p.coordinates = CoordinateString(cargs.X.row_labels[cargs.i + 1],
                                               cargs.Y.col_labels[cargs.j + 1])

\* compute_cell_C(1, 2, MATRIX_A, MATRIX_B) has returned its Cell
C12_Witness ==
    /\ Returned("C") /\ mpc = "idle"
    /\ cargs.X = MATRIX_A /\ cargs.Y = MATRIX_B /\ cargs.i = 1 /\ cargs.j = 2
    /\ cres.val.row = 1 /\ cres.val.col = 2
    /\ Len(cres.val.provenance.stage_2_resolved) = 4
    /\ cres.val.provenance.coordinates = <<"(", "Operative", ",", " ", "Completeness", ")">>


\* C13: a compute_cell_F run makes one resolve_semantic_pair call, on
\* J.cell(i,j).value + " * " + C.cell(i,j).value, then one
\* apply_ontological_lens call, on what that call returned, and no other
\* resolver call, whatever the shapes of J and C; the provenance of its Cell
\* holds the pair, the resolved concept and the lensed value.
C13_StagesOfF ==
    DirectRun("F") =>
        LET cr == CallsAndReturns
            pair == cargs.X.cells[cargs.i + 1][cargs.j + 1].value \o <<" * ">>
                    \o cargs.Y.cells[cargs.i + 1][cargs.j + 1].value
            methods == <<"resolve_semantic_pair", "resolve_semantic_pair",
                         "apply_ontological_lens", "apply_ontological_lens">>
        IN /\ Len(cr) >= 1 /\ Len(cr) <= 4
           /\ \A n \in 1..Len(cr) :
                 /\ cr[n].ev = (IF n % 2 = 1 THEN "call" ELSE "return")
                 /\ cr[n].what = <<methods[n]>>
           /\ loc.element_pair = pair
           /\ rcall.method = "resolve_semantic_pair" => rcall.arg = pair
           /\ rcall.method = "apply_ontological_lens" =>
                 /\ loc.resolved_concept = ResolverAnswer(pair)
                 /\ rcall.arg = loc.resolved_concept
           /\ cpc = "done" =>
                 /\ call_count.resolve_semantic_pair = 1
                 /\ call_count.apply_ontological_lens = 1
                 /\ cres.val.provenance.stage_1_element_wise = pair
                 /\ cres.val.provenance.stage_2_resolved = ResolverAnswer(pair)
                 /\ cres.val.provenance.stage_3_lensed = rret
                 /\ cres.val.value = rret

\* compute_cell_F(2, 3, J, C) on 3x4 operands with the echo resolver has
\* returned its Cell after one call of each kind
C13_Witness ==
    /\ DirectRun("F") /\ cpc = "done" /\ resolver.kind = "echo"
    /\ cargs.X = MATRIX_J /\ shape(cargs.Y) = <<3, 4>> /\ cargs.i = 2 /\ cargs.j = 3
    /\ call_count = [resolve_semantic_pair |-> 1, apply_ontological_lens |-> 1]
    /\ cres.val.provenance.stage_1_element_wise =
          <<"Feasibility", " * ", "C", "[", "2", ",", "3", "]">>
    /\ cres.val.provenance.stage_2_resolved = EchoResolveSemanticPair(loc.element_pair)


\* the words of a sentence with single spaces between them
Spaced(words) == [n \in 1..(2 * Len(words) - 1) |-> IF n % 2 = 1 THEN words[(n + 1) \div 2] ELSE " "]

\* "<a> applied to frame the problem of <problem> and <f> to resolve the problem"
ExpectedSentence(a) ==
    a.X.cells[a.i + 1][a.j + 1].value
    \o <<" ">> \o Spaced(<<"applied", "to", "frame", "the", "problem", "of">>) \o <<" ">>
    \o a.problem
    \o <<" ">> \o Spaced(<<"and">>) \o <<" ">>
    \o a.Y.cells[a.i + 1][a.j + 1].value
    \o <<" ">> \o Spaced(<<"to", "resolve", "the", "problem">>)

\* C14: synthesize_cell_D builds its sentence from A.cell(i,j).value, the
\* problem and F.cell(i,j).value without a resolver call, makes one
\* apply_ontological_lens call on it, under A's row label at i and A's column
\* label at j, and never calls resolve_semantic_pair; the provenance of its
\* Cell holds the sentence, the lensed value and the problem.
C14_StagesOfD ==
    DirectRun("D") =>
        LET cr == CallsAndReturns
        IN /\ Len(cr) >= 1 /\ Len(cr) <= 2
           /\ \A n \in 1..Len(cr) :
                 /\ cr[n].ev = (IF n % 2 = 1 THEN "call" ELSE "return")
                 /\ cr[n].what = <<"apply_ontological_lens">>
           /\ call_count.resolve_semantic_pair = 0
           /\ loc.synthesis_statement = ExpectedSentence(cargs)
           /\ cpc # "done" =>
                 /\ rcall.method = "apply_ontological_lens"
                 /\ rcall.arg = ExpectedSentence(cargs)
                 /\ rcall.context.row_label = cargs.X.row_labels[cargs.i + 1]
                 /\ rcall.context.col_label = cargs.X.col_labels[cargs.j + 1]
           /\ cpc = "done" =>
                 /\ call_count.apply_ontological_lens = 1
                 /\ cres.val.provenance.stage_1_synthesis = ExpectedSentence(cargs)
                 /\ cres.val.provenance.stage_2_lensed = rret
                 /\ cres.val.provenance.problem = cargs.problem
                 /\ cres.val.value = rret

\* synthesize_cell_D(0, 0, MATRIX_A, F, "generating knowledge") has returned;
\* its tracer holds the context the lens was called with
C14_Witness ==
    /\ DirectRun("D") /\ cpc = "done"
    /\ cargs.X = MATRIX_A /\ shape(cargs.Y) = <<3, 4>> /\ cargs.i = 0 /\ cargs.j = 0
    /\ call_count = [resolve_semantic_pair |-> 0, apply_ontological_lens |-> 1]
    /\ SubSeq(cres.val.provenance.stage_1_synthesis, 1, 3) = <<"Values", " ", "applied">>
    /\ cres.val.provenance.problem = <<"generating", " ", "knowledge">>
    /\ cargs.tracer /\ Len(trace) = 2
    /\ trace[2].context.row_label = <<"Normative">>
    /\ trace[2].context.col_label = <<"Guiding">>


\* what a traced compute_cell_C run over K products leaves in hist, in order:
\* the stage-1 event, then call, return and event for each product, then the
\* lens call, its return and the last event
ExpectedHistC(K) ==
    [n \in 1..(3 * K + 4) |->
        IF n = 1 THEN <<"trace", "stage 1">>
        ELSE IF n <= 3 * K + 1
        THEN LET k == (n - 2) \div 3
                 r == (n - 2) % 3
             IN IF r = 0 THEN <<"call", "resolve_semantic_pair">>
                ELSE IF r = 1 THEN <<"return", "resolve_semantic_pair">>
                ELSE <<"trace", "product:k=", ToString(k)>>
        ELSE IF n = 3 * K + 2 THEN <<"call", "apply_ontological_lens">>
        ELSE IF n = 3 * K + 3 THEN <<"return", "apply_ontological_lens">>
        ELSE <<"trace", "final">>]

\* C15: with a tracer, a compute_cell_C run emits K + 2 events: first the
\* combinatorial one, carrying all K products, before any resolver call; then
\* "product:k=<index>" for index 0..K-1, each after its resolution returned
\* and before the next call is issued; then "final", after the lens returned.
C15_TraceOrderOfC ==
    (DirectRun("C") /\ cargs.tracer) =>
        LET K == shape(cargs.X)[2]
            expected == ExpectedHistC(K)
        IN /\ Len(hist) >= 2 /\ Len(hist) <= Len(expected)
           /\ hist[1].ev = "trace"
           /\ trace[1].context.operation_type = "combinatorial"
           /\ trace[1].extras.products = ExpectedProducts(cargs)
           /\ \A n \in 2..Len(hist) : <<hist[n].ev>> \o hist[n].what = expected[n]
           /\ Len(trace) = Len(TraceStages)
           /\ \A n \in 1..Len(trace) : trace[n].stage = TraceStages[n]
           /\ cpc = "done" => (Len(hist) = Len(expected) /\ Len(trace) = K + 2)

\* a traced compute_cell_C(0, 0, MATRIX_A, MATRIX_B) has returned: six events
C15_Witness ==
    /\ DirectRun("C") /\ cargs.tracer /\ cpc = "done"
    /\ cargs.X = MATRIX_A /\ cargs.Y = MATRIX_B /\ cargs.i = 0 /\ cargs.j = 0
    /\ Len(trace) = 6 /\ Len(hist) = 16
    /\ Len(trace[1].extras.products) = 4
    /\ trace[2].stage = <<"product:k=", "0">>
    /\ trace[5].stage = <<"product:k=", "3">>
    /\ trace[6].stage = <<"final">>


\* "product:k=<index>" for the indices 0..K-1
ProductLabels(K) == [k \in 1..K |-> <<"product:k=", ToString(k - 1)>>]

\* the labels a traced run of a variant passes to the tracer, in order, the
\* stage-1 label of variant C being first
ExpectedStages(variant, first, K) ==
    IF variant = "C" THEN <<first>> \o ProductLabels(K) \o << <<"final">> >>
    ELSE IF variant = "F" THEN << <<"element-wise">>, <<"final">> >>
    ELSE << <<"synthesis">>, <<"final">> >>

IsPrefix(s, t) == Len(s) <= Len(t) /\ s = SubSeq(t, 1, Len(s))

\* the labels of a run are those of its variant, one per stage, in order
StageLabelsAre(first) ==
    /\ \A n \in 1..Len(trace) :
          \/ trace[n].stage \in {first, <<"element-wise">>, <<"synthesis">>, <<"final">>}
          \/ \E k \in 0..(shape(cargs.X)[2] - 1) : trace[n].stage = <<"product:k=", ToString(k)>>
    /\ \A variant \in Variants :
          (DirectRun(variant) /\ cargs.tracer) =>
              LET expected == ExpectedStages(variant, first, shape(cargs.X)[2])
              IN /\ IsPrefix(TraceStages, expected)
                 /\ cpc = "done" => TraceStages = expected
    /\ (Called(cargs) /\ ~cargs.tracer) => trace = <<>>

\* C16 as stated: the labels are "combinatorial", "product:k=<index>",
\* "element-wise", "synthesis" and "final"; variant C passes "combinatorial",
\* then the "product:k=<index>" labels, then "final"; variant F passes
\* "element-wise" then "final"; variant D passes "synthesis" then "final".
C16_StageLabels_Original == StageLabelsAre(<<"combinatorial">>)

\* C16: the same with the stage-1 label of variant C as compute_cell_C
\* passes it, "product:combinatorial".
C16_StageLabels == StageLabelsAre(<<"product:combinatorial">>)

\* a traced compute_cell_C run has returned: K + 2 labels, the first one
\* "product:combinatorial", the last one "final"
C16_Witness ==
    /\ DirectRun("C") /\ cargs.tracer /\ cpc = "done"
    /\ trace[1].stage = <<"product:combinatorial">>
    /\ trace[Len(trace)].stage = <<"final">>
    /\ Len(trace) = shape(cargs.X)[2] + 2


(***************************************************************************)
(* The cell functions and a tracer that fails (checked under SpecSink).    *)
(***************************************************************************)
\* C17: a trace_stage call that raises does not fail the pipeline: the cell
\* function called on valid inputs does not raise, whichever call of the
\* tracer fails.
C17_SinkFailureTolerated ==
    (Called(cargs) /\ ValidInputs(cargs)) => cpc # "raised"


(***************************************************************************)
(* The matrix wrappers (checked under SpecPipe).                           *)
(***************************************************************************)
\* the cells a wrapper has collected so far
CellsCollected == 4 * Len(mloc.cells) + Len(mloc.row_cells)

\* the grid has the cell of position (r, c) at cells[r][c]
PositionsHold(cells) ==
    \A r \in 1..Len(cells) : \A c \in 1..Len(cells[r]) :
        cells[r][c].row = r - 1 /\ cells[r][c].col = c - 1

\* C18: a wrapper calls its cell function for the 12 positions of the 3x4
\* result in row-major order; the Matrix it returns has 3 rows of 4 cells,
\* cells[r][c] being the Cell of position (r, c); compute_matrix_C gives it
\* A's row labels and B's column labels, compute_matrix_F the labels of J,
\* synthesize_matrix_D the labels of A.
C18_WrapperGridAndLabels ==
    /\ mpc = "loop" =>
          /\ CellsCollected < 12
          /\ cargs.i = CellsCollected \div 4 /\ cargs.j = CellsCollected % 4
          /\ cargs.variant = margs.variant /\ cargs.X = margs.X /\ cargs.Y = margs.Y
          /\ PositionsHold(mloc.cells)
          /\ \A c \in 1..Len(mloc.row_cells) :
                mloc.row_cells[c].row = cargs.i /\ mloc.row_cells[c].col = c - 1
    /\ mpc = "done" =>
          LET m == mres.val
          IN /\ mres.ok
             /\ Len(m.cells) = 3
             /\ \A r \in 1..3 : Len(m.cells[r]) = 4
             /\ \A r \in 1..3 : \A c \in 1..4 :
                   m.cells[r][c].row = r - 1 /\ m.cells[r][c].col = c - 1
             /\ m.row_labels = margs.X.row_labels
             /\ m.col_labels = (IF margs.variant = "C" THEN margs.Y.col_labels
                                ELSE margs.X.col_labels)

\* compute_matrix_C(MATRIX_A, MATRIX_B) has returned a Matrix with the row
\* labels of A and the column labels of B
C18_Witness ==
    /\ mpc = "done" /\ margs.variant = "C" /\ margs.X = MATRIX_A /\ margs.Y = MATRIX_B
    /\ mres.val.row_labels = << <<"Normative">>, <<"Operative">>, <<"Evaluative">> >>
    /\ mres.val.col_labels[4] = <<"Consistency">>
    /\ mres.val.cells[3][4].row = 2 /\ mres.val.cells[3][4].col = 3
    /\ mres.val.cells[3][4].provenance.coordinates =
          <<"(", "Evaluative", ",", " ", "Consistency", ")">>


\* C19: the Matrix a wrapper returns has as many rows of cells as row
\* labels, in every row as many cells as column labels, and the Cell of
\* position (r, c) at cells[r][c], whatever the operands it returned on.
C19_MatrixInvariants ==
    mpc = "done" =>
        LET m == mres.val
        IN /\ Len(m.cells) = Len(m.row_labels)
           /\ \A r \in 1..Len(m.cells) : Len(m.cells[r]) = Len(m.col_labels)
           /\ PositionsHold(m.cells)


(***************************************************************************)
(* The Cell a cell function returns when the service is behind the         *)
(* resolver (checked under FairSpecCell).                                  *)
(***************************************************************************)
\* C20: the Cell a cell function returns has a non-negative row, a
\* non-negative col and a non-empty value, whatever the service answered,
\* an object with the empty string as its text among the answers.
C20_CellFieldsValid ==
    (Called(cargs) /\ cpc = "done") =>
        /\ cres.ok
        /\ cres.val.row >= 0
        /\ cres.val.col >= 0
        /\ cres.val.value # <<>>


(***************************************************************************)
(* C21: constructing a SemanticContext fails exactly when station_context, *)
(* valley_summary, operation_type or terms is empty; and a cell function   *)
(* handed an empty valley summary raises without any resolver call, with   *)
(* a tracer and without one.                                               *)
(***************************************************************************)
ResolverCalls == SelectSeq(hist, LAMBDA e : e.ev = "call")

C21_ContextPreconditions ==
    /\ ucall.fn = "SemanticContext" =>
         /\ uret.ok <=> /\ ucall.station_context # <<>>
                        /\ ucall.valley_summary # <<>>
                        /\ ucall.operation_type # ""
                        /\ ucall.terms # <<>>
         /\ ~uret.ok => uret.err.cls = "ValueError"
         /\ uret.ok => /\ uret.val.station_context = ucall.station_context
                       /\ uret.val.valley_summary = ucall.valley_summary
                       /\ uret.val.operation_type = ucall.operation_type
                       /\ uret.val.terms = ucall.terms
    /\ (Called(cargs) /\ cargs.valley_summary = <<>>) =>
         /\ cpc \in {"begin", "raised"}
         /\ call_count = ZeroCounts
         /\ ResolverCalls = <<>>
         /\ (cpc = "raised" /\ InRange(cargs) /\ ShapesMatch(cargs)) =>
              cres = Fail(Err("ValueError", "valley_summary is required"))

C21_Witness ==
    /\ mpc = "idle"
    /\ cargs.variant = "D"
    /\ InRange(cargs)
    /\ cargs.valley_summary = <<>>
    /\ ~cargs.tracer
    /\ cpc = "raised"
    /\ cres.err.msg = "valley_summary is required"


(***************************************************************************)
(* C22: the temperature of a dispatch is a fixed lookup on the operation   *)
(* kind: "multiply" and "*" agree, "add" and "+" agree, every kind absent  *)
(* from the table gets one default; resolve_semantic_pair dispatches with  *)
(* the temperature of "multiply", apply_ontological_lens with that of      *)
(* "interpret"; and the table never changes.                               *)
(***************************************************************************)
TableKinds == {"multiply", "add", "interpret", "*", "+", "odot"}

ExpectedTemperature(op) ==
    CASE op \in {"multiply", "*", "odot"} -> 7
      [] op \in {"add", "+", "interpret"} -> 5
      [] OTHER -> 5

Dispatching == dpc # "idle"

C22_TemperatureLookup ==
    /\ DOMAIN resolver.temperatures = TableKinds
    /\ \A op \in TableKinds : resolver.temperatures[op] = ExpectedTemperature(op)
    /\ resolver.temperatures["multiply"] = resolver.temperatures["*"]
    /\ resolver.temperatures["add"] = resolver.temperatures["+"]
    /\ Dispatching =>
         /\ temperature = ExpectedTemperature(operation)
         /\ operation \notin TableKinds => temperature = 5
         /\ (dpc = "returned" /\ ret.phase = "ok") =>
              ret.meta.temperature = temperature
    /\ (Dispatching /\ ucall = NoUnit) =>
         /\ rcall.method = "resolve_semantic_pair" =>
              operation = "multiply" /\ temperature = resolver.temperatures["multiply"]
         /\ rcall.method = "apply_ontological_lens" =>
              operation = "interpret" /\ temperature = resolver.temperatures["interpret"]
         /\ rcall.method \in {"resolve_semantic_pair", "apply_ontological_lens"}

C22_Witness ==
    /\ Dispatching
    /\ ucall = NoUnit
    /\ rcall.method = "resolve_semantic_pair"
    /\ temperature = 7
    /\ attempt > 0


(***************************************************************************)
(* C23: _extract_json returns exactly the text from its first "{" to its   *)
(* last "}" inclusive, so that "noise {"a":1} trailing" gives {"a":1}; it  *)
(* raises "Empty model output" on the empty text, and "No JSON object      *)
(* found in model output" on a non-empty text that has no "{", has no "}", *)
(* or whose last "}" comes before its first "{".                           *)
(***************************************************************************)
Extracting == ucall.fn = "_extract_json"

Positions(text, c) == {p \in 1..Len(text) : text[p] = c}

\* a "{" stands before some "}"
HasObject(text) ==
    \E p \in Positions(text, "{"), q \in Positions(text, "}") : p < q

\* the result is the text from the first "{" to the last "}"
IsFirstToLast(text, out) ==
    \E p \in Positions(text, "{"), q \in Positions(text, "}") :
        /\ \A p2 \in Positions(text, "{") : p <= p2
        /\ \A q2 \in Positions(text, "}") : q2 <= q
        /\ out = [n \in 1..(q - p + 1) |-> text[p + n - 1]]

NotFoundErr == Err("ValueError", "No JSON object found in model output")

ExtractsOrRaises(empty_err) ==
    Extracting =>
      /\ uret.ok <=> HasObject(ucall.text)
      /\ uret.ok => IsFirstToLast(ucall.text, uret.val)
      /\ ucall.text = NoiseExample => uret = Ok(<<"{", "\"a\":1", "}">>)
      /\ ~uret.ok => uret.err = IF ucall.text = <<>> THEN empty_err ELSE NotFoundErr

\* the statement with the empty text raising the "no JSON object found" error
C23_ExtractJson_Original == ExtractsOrRaises(NotFoundErr)

C23_ExtractJson == ExtractsOrRaises(Err("ValueError", "Empty model output"))

C23_Witness ==
    /\ Extracting
    /\ ucall.text = <<"}", "{", "}">>
    /\ uret = Ok(<<"{", "}">>)


(***************************************************************************)
(* C24: an attempt succeeds exactly when the service responded and the     *)
(* object parsed from the response has a string "text", a list of strings  *)
(* "terms_used" and a list of strings "warnings"; any other attempt is a   *)
(* failed attempt, retried like a transport failure, and what it parsed is *)
(* never the outcome of the dispatch.                                      *)
(***************************************************************************)
IsListOfStr(v) == v.t = "list" /\ \A n \in 1..Len(v.l) : v.l[n].t = "str"

ConformsToSchema(obj) ==
    /\ {"text", "terms_used", "warnings"} \subseteq DOMAIN obj
    /\ obj.text.t = "str"
    /\ IsListOfStr(obj.terms_used)
    /\ IsListOfStr(obj.warnings)

\* the content holds, from its first "{" to its last "}", an object that conforms
ContentConforms(content) ==
    \E p \in 1..(Len(content) - 2) :
        /\ IsFirstToLast(content, SubSeq(content, p, p + 2))
        /\ content[p + 1] \in DOMAIN JsonBodies
        /\ ConformsToSchema(JsonBodies[content[p + 1]])

LastAttemptFailed ==
    /\ log # <<>>
    /\ log[Len(log)].ev = "call"
    /\ ~log[Len(log)].ok

TransportErrors == {"APIConnectionError", "RateLimitError"}

\* what the dispatch does after a failed attempt that raised e
AfterFailure(e) ==
    IF attempt < resolver.max_retries
    THEN dpc = "sleep" /\ ret = NoRet
    ELSE dpc = "returned" /\ ret.phase = "error" /\ ret.meta.error = e.msg

C24_ValidationDecidesSuccess ==
    /\ ucall.fn = "try" =>
         /\ uret.ok <=> (ucall.service.kind = "resp" /\ ContentConforms(ucall.service.content))
         /\ uret.ok => ConformsToSchema(uret.val)
         /\ ~uret.ok => uret.err.cls \in ExceptionClasses
    /\ (dpc = "returned" /\ ret.phase = "ok") =>
         /\ ConformsToSchema(ret.response)
         /\ log[Len(log)].ok
    /\ (dpc = "returned" /\ ret.phase = "error") =>
         /\ \A n \in 1..Len(log) : log[n].ev = "call" => ~log[n].ok
         /\ ret.response.text = JStr(<<"ERROR: Failed to process ", operation>>)
    /\ LastAttemptFailed => AfterFailure(attempt_err)

C24_Witness ==
    /\ LastAttemptFailed
    /\ attempt_err = Err("ValueError", "'terms_used' must be list[str]")
    /\ dpc = "sleep"
    /\ attempt = 1


(***************************************************************************)
(* C25: with a resolver whose answers depend only on its arguments, the    *)
(* Cell compute_cell_C produces for (i, j) is a function of (i, j) and the *)
(* operands alone: it is the same whichever coordinates were computed      *)
(* before it and whatever concurrent computations did to the resolver, so  *)
(* cells computed in any order are the cells of the row-major              *)
(* compute_matrix_C.                                                       *)
(***************************************************************************)
LensAnswer(content, row_label, col_label) ==
    LET context == [row_label |-> row_label, col_label |-> col_label]
    IN IF resolver.kind = "mock" THEN MockApplyOntologicalLens(content, context)
       ELSE EchoApplyOntologicalLens(content, context)

\* the Cell of C at (i, j), from the operands and the resolver's answers alone
ExpectedCellC(i, j, traced) ==
    LET products == [k \in 1..4 |-> MATRIX_A.cells[i + 1][k].value \o <<Star>>
                                    \o MATRIX_B.cells[k][j + 1].value]
        resolved == [k \in 1..4 |-> ResolverAnswer(products[k])]
        row_label == MATRIX_A.row_labels[i + 1]
        col_label == MATRIX_B.col_labels[j + 1]
        final == LensAnswer(CommaSeparated(resolved), row_label, col_label)
    IN [row |-> i, col |-> j, value |-> final,
        provenance |-> [stage_1_products |-> products,
                        stage_2_resolved |-> resolved,
                        stage_3_lensed |-> final,
                        operation |-> "compute_C",
                        coordinates |-> CoordinateString(row_label, col_label),
                        traced |-> traced]]

Configuration(self) ==
    <<self.model, self.seed, self.temperatures, self.max_retries, self.base_delay,
      self.default_system_frame>>

DispatchStarts == dpc = "idle" /\ dpc' # "idle"

C26_ClientStateless ==
    [][/\ Configuration(resolver') = Configuration(resolver)
       /\ DispatchStarts => (attempt' = 0 /\ last_err' = NoneErr /\ log' = <<>>)
       /\ (log = <<>> /\ log' # <<>>) => log'[1] = [ev |-> "call", n |-> 0, ok |-> log'[1].ok]
      ]_vars

\* a later dispatch of a cell run, after one that failed on every attempt
C26_Witness ==
    /\ call_count.resolve_semantic_pair = 2
    /\ dpc = "try" /\ attempt = 0
    /\ \E n \in 1..Len(hist) : hist[n].ev = "return" /\ hist[n].outcome = "unavailable"


(***************************************************************************)
(* C27: the metadata of a successful dispatch carries the attempt count    *)
(* and the hash of the system prompt that was sent in that call, be it the *)
(* default system frame or a frame the context supplied.                   *)
(***************************************************************************)
C27_SystemHashOfActivePrompt ==
    (dpc = "returned" /\ ret.phase = "ok") =>
        /\ ret.meta.attempts = attempt + 1
        /\ ret.meta.systemVersion = Sha256(normalize_text(system_prompt))


(***************************************************************************)
(* C28: constructing a CellResolver without the client library, or with    *)
(* neither an api_key argument nor OPENAI_API_KEY in the environment,      *)
(* raises at construction: no client is created, no service call is made,  *)
(* nothing is retried. Any other construction succeeds.                    *)
(***************************************************************************)
Constructing == ucall.fn = "CellResolver"

NoCredential == ucall.api_key = <<>> /\ ucall.env_key = <<>>

C28_ConstructionFailsFast ==
    Constructing =>
        /\ ~uret.ok <=> (~ucall.library \/ NoCredential)
        /\ ~uret.ok =>
             /\ uret.val = <<>>
             /\ uret.err.cls = IF ~ucall.library THEN "ImportError" ELSE "ValueError"
        /\ uret.ok =>
             /\ uret.val.client.api_key \in {ucall.api_key, ucall.env_key} \ {<<>>}
             /\ ucall.api_key # <<>> => uret.val.client.api_key = ucall.api_key
        /\ log = <<>> /\ attempt = 0 /\ dpc = "idle"

C28_Witness ==
    /\ Constructing
    /\ ucall.library /\ NoCredential
    /\ uret = Fail(Err("ValueError", "OpenAI API key required"))


(***************************************************************************)
(* C29: with the canonical A and B and the echo resolver, compute_cell_C   *)
(* at every (i, j) in range returns a Cell with four stage-1 products,     *)
(* four resolved concepts, each its product with the two sides swapped,    *)
(* and a final value that contains A's row label at i and B's column       *)
(* label at j.                                                             *)
(***************************************************************************)
EchoOnCanonical ==
    /\ cargs.variant = "C"
    /\ resolver.kind = "echo"
    /\ cargs.X = MATRIX_A /\ cargs.Y = MATRIX_B
    /\ cargs.i \in 0..2 /\ cargs.j \in 0..3
    /\ cargs.valley_summary # <<>>

\* concept is "<right> <left>" for the product "<left> * <right>"
WordSwapped(product, concept) ==
    \E n \in 1..Len(product) :
        /\ product[n] = Star
        /\ concept = [m \in 1..Len(product) |->
                        IF m <= Len(product) - n THEN product[n + m]
                        ELSE IF m = Len(product) - n + 1 THEN " "
                        ELSE product[m - (Len(product) - n + 1)]]

Contains(text, part) ==
    \E n \in 0..(Len(text) - Len(part)) : \A m \in 1..Len(part) : text[n + m] = part[m]

C29_EchoOnCanonicalOperands ==
    EchoOnCanonical =>
        /\ cpc # "raised"
        /\ cpc = "done" =>
             LET p == cres.val.provenance
             IN /\ cres.ok
                /\ Len(p.stage_1_products) = 4
                /\ Len(p.stage_2_resolved) = 4
                /\ \A k \in 1..4 :
                     /\ p.stage_1_products[k]
                          = MATRIX_A.cells[cargs.i + 1][k].value \o <<Star>>
                            \o MATRIX_B.cells[k][cargs.j + 1].value
                     /\ WordSwapped(p.stage_1_products[k], p.stage_2_resolved[k])
                /\ Contains(cres.val.value, MATRIX_A.row_labels[cargs.i + 1])
                /\ Contains(cres.val.value, MATRIX_B.col_labels[cargs.j + 1])

\* compute_cell_C(2, 3, MATRIX_A, MATRIX_B) with the echo resolver has returned
C29_Witness ==
    /\ EchoOnCanonical
    /\ mpc = "idle" /\ cpc = "done"
    /\ cargs.i = 2 /\ cargs.j = 3
    /\ cres.val.provenance.stage_2_resolved[4] = <<"Practicality", " ", "Consolidation">>
    /\ Contains(cres.val.value, <<"Evaluative">>)


(***************************************************************************)
(* C30: a compute-cell run with a matrix kind of C, F or D, indices in     *)
(* range and the echo resolver ends either in a failure printed with a     *)
(* non-zero exit or in a success that prints the cell; and it succeeds     *)
(* whenever nothing is wrong with the configuration.                       *)
(***************************************************************************)
CliRan == ucall.fn = "compute-cell"

Printed(line) == \E n \in 1..Len(uret.echoed) : uret.echoed[n] = line

ConfigurationProblem == ucall.neo4j_export /\ ~ucall.exporter_works

C30_CliEndsCleanly ==
    CliRan =>
        /\ \/ uret.exit_code # 0 /\ Printed("Error: ") /\ ~Printed("Result:")
           \/ uret.exit_code = 0 /\ Printed("Result:") /\ ~Printed("Error: ")
        /\ ~ConfigurationProblem => (uret.exit_code = 0 /\ Printed("Result:"))


(***************************************************************************)
(* C31: a matrix wrapper that raises because of its input matrices (too    *)
(* few rows or columns, shapes that do not fit) raises before any resolver *)
(* call has been made for any coordinate.                                  *)
(***************************************************************************)
C31_WrapperRaisesBeforeCalls ==
    mpc = "raised" => (call_count = ZeroCounts /\ ResolverCalls = <<>>)


(***************************************************************************)
(* C32: every SemanticContext the cell pipeline constructs, in the three   *)
(* variants and with or without a tracer, has an operation_type of         *)
(* "combinatorial", "*", "interpret" or "synthesis".                       *)
(***************************************************************************)
\* every context the pipeline constructs reaches the tracer or the resolver
ContextsBuilt ==
    {trace[n].context : n \in 1..Len(trace)}
    \cup (IF rcall.method # "none" THEN {rcall.context} ELSE {})

OperationTypesIn(kinds) == \A c \in ContextsBuilt : c.operation_type \in kinds

ResolvingPair == ucall.fn = "resolve_semantic_pair"

\* the user prompt that names a and b as the two terms
PromptNaming(a, b) ==
    assemble_prompt(TestValley, <<"Requirements">>, MATRIX_A.row_labels[1],
                    MATRIX_B.col_labels[1], "*", <<KV("term_a", a), KV("term_b", b)>>, <<>>)

C33_PairSplitsIntoItsTerms ==
    ResolvingPair =>
        /\ uret.ok
        /\ Len(Split(ucall.pair, Star)) = 2
        /\ ucall.built => user_prompt = PromptNaming(ucall.a, ucall.b)


(***************************************************************************)
(* C34: assemble_prompt emits its fragments in the order valley line (only *)
(* for a non-empty valley summary), station line, coordinate line,         *)
(* operation line, terms line; the operation line is the caller's override *)
(* when given and the default of the operation kind otherwise, so that     *)
(* every assembled prompt holds exactly one operation line.                *)
(***************************************************************************)
Assembling == ucall.fn = "assemble_prompt"

\* the positions at which a fragment that starts with the word begins
FragmentStarts(prompt, word) ==
    {p \in 1..Len(prompt) :
        /\ prompt[p] = word
        /\ p = 1 \/ (p > 2 /\ prompt[p - 1] = "\n" /\ prompt[p - 2] = "\n")}

\* the fragment that begins at p, up to the next blank line
FragmentAt(prompt, p) ==
    LET ends == {q \in p..Len(prompt) :
                    q = Len(prompt) \/ (q + 2 <= Len(prompt) /\ prompt[q + 1] = "\n"
                                        /\ prompt[q + 2] = "\n")}
        q == CHOOSE e \in ends : \A o \in ends : e <= o
    IN SubSeq(prompt, p, q)

\* every fragment of the first kind begins before every one of the second
Before(prompt, first, second) ==
    \A p \in FragmentStarts(prompt, first), q \in FragmentStarts(prompt, second) : p < q

FragmentsInOrder(prompt) ==
    /\ Cardinality(FragmentStarts(prompt, "Valley"))
         = (IF ucall.valley_summary # <<>> THEN 1 ELSE 0)
    /\ Cardinality(FragmentStarts(prompt, "Station:")) = 1
    /\ Cardinality(FragmentStarts(prompt, "Coordinates:")) = 1
    /\ Cardinality(FragmentStarts(prompt, "Terms:")) = 1
    /\ Before(prompt, "Valley", "Station:")
    /\ Before(prompt, "Station:", "Coordinates:")
    /\ Before(prompt, "Coordinates:", "Operation:")
    /\ Before(prompt, "Coordinates:", "Terms:")
    /\ Before(prompt, "Operation:", "Terms:")

\* the override is the operation line when it is given
OverrideWins(prompt) ==
    ucall.operation_instructions # <<>> =>
        \A p \in FragmentStarts(prompt, "Operation:") :
            FragmentAt(prompt, p) = <<"Operation:", " ">> \o ucall.operation_instructions

C34_OneOperationLine ==
    Assembling =>
        /\ FragmentsInOrder(uret)
        /\ OverrideWins(uret)
        /\ Cardinality(FragmentStarts(uret, "Operation:")) = 1


(***************************************************************************)
(* C35: in a dispatch the first attempt whose response passes extraction,  *)
(* parsing and validation ends the call at once: no service call and no    *)
(* sleep follows it, the validated object is returned as it is, and in the *)
(* metadata of a success as of a failure the attempts field is the number  *)
(* of service calls made in that dispatch.                                 *)
(***************************************************************************)
\* the service calls of the dispatch in the next state
NumCallsNext == Cardinality({n \in 1..Len(log') : log'[n].ev = "call"})

\* a successful attempt is the last entry of the log of a returned dispatch
SuccessIsLast ==
    \A n \in 1..Len(log') :
        (log'[n].ev = "call" /\ log'[n].ok) =>
            (n = Len(log') /\ dpc' = "returned" /\ ret'.phase = "ok")

\* the step that returns a success hands back the object one answer of the
\* service holds, after extraction, parsing and validation
ReturnsValidatedObject ==
    (dpc = "try" /\ dpc' = "returned" /\ ret'.phase = "ok") =>
        \E beh \in ServiceBehaviours :
            /\ beh.kind \notin {"raise", "nochoices"}
            /\ _validate_obj(json_loads(_extract_json(beh.content).val).val).ok
            /\ ret'.response = json_loads(_extract_json(beh.content).val).val

\* once the dispatch has returned, its log grows no further
NothingFollows == Succeeded => (log' = log \/ (log' = <<>> /\ dpc' # "returned"))

C35_FirstSuccessEndsDispatch ==
    [][ /\ SuccessIsLast
        /\ ReturnsValidatedObject
        /\ NothingFollows
        /\ (dpc' = "returned" /\ ret'.phase # "none") => ret'.meta.attempts = NumCallsNext
      ]_vars

\* a success on the third attempt, after two failures and two sleeps
C35_Witness ==
    /\ Succeeded
    /\ Len(log) = 5 /\ log[5] = [ev |-> "call", n |-> 2, ok |-> TRUE]
    /\ ret.meta.attempts = 3
    /\ ~log[1].ok /\ ~log[3].ok


(***************************************************************************)
(* C36: a degraded stage-2 result does not end compute_cell_C early: when  *)
(* every service call fails, all K products are resolved and the lens is   *)
(* applied, each of the K + 1 dispatches making max_retries + 1 service    *)
(* calls; every stage_2_resolved entry is "ERROR: Failed to process        *)
(* multiply", and the lens is called on those K strings joined with ", ".  *)
(***************************************************************************)
FailedMultiplyText == <<"ERROR: Failed to process ", "multiply">>

\* compute_cell_C on valid inputs, no dispatch of which has succeeded so far
FailingRunOfC ==
    /\ mpc = "idle" /\ cargs.variant = "C" /\ ValidInputs(cargs)
    /\ resolver.kind = "openai"
    /\ \A n \in 1..Len(ReturnOutcomes) : ReturnOutcomes[n] # "ok"

\* K: the products of the cell
ProductsOfCell == shape(cargs.X)[2]

C36_DegradedRunGoesOn ==
    FailingRunOfC =>
        /\ (cpc = "wait" /\ Degraded) => NumCalls = resolver.max_retries + 1
        /\ (cpc = "wait" /\ rcall.method = "apply_ontological_lens") =>
              /\ Len(ReturnOutcomes) = ProductsOfCell
              /\ call_count.resolve_semantic_pair = ProductsOfCell
              /\ rcall.arg = Join([k \in 1..ProductsOfCell |-> FailedMultiplyText],
                                  <<",", " ">>)
        /\ cpc = "done" =>
              /\ Len(ReturnOutcomes) = ProductsOfCell + 1
              /\ call_count.resolve_semantic_pair = ProductsOfCell
              /\ call_count.apply_ontological_lens = 1
              /\ cres.val.provenance.stage_2_resolved
                   = [k \in 1..ProductsOfCell |-> FailedMultiplyText]

\* the run has returned its Cell after MaxK + 1 failed dispatches, of which
\* one failed for varying reasons
C36_Witness ==
    /\ FailingRunOfC /\ cpc = "done"
    /\ \E n \in 1..Len(ReturnOutcomes) : ReturnOutcomes[n] = "degraded"
    /\ Len(cres.val.provenance.stage_2_resolved) = MaxK
    /\ cres.val.provenance.stage_2_resolved[MaxK] = FailedMultiplyText


(***************************************************************************)
(* C37: a trace sink that does not fail changes nothing the cell functions *)
(* compute: with a tracer the run makes the resolver calls of the run      *)
(* without one, in the same order and with the same arguments, and returns *)
(* the same Cell (row, col, value, provenance), but for the provenance     *)
(* flag "traced", which is true exactly when a tracer was passed.          *)
(***************************************************************************)
\* the deterministic resolver's answer to a call
AnswerTo(call) ==
    IF call.method = "resolve_semantic_pair" THEN ResolverAnswer(call.arg)
    ELSE IF resolver.kind = "mock" THEN MockApplyOntologicalLens(call.arg, call.context)
    ELSE EchoApplyOntologicalLens(call.arg, call.context)

\* the cell function of a's variant from its entry to its first resolver call
BeginOf(a) ==
    IF a.variant = "C" THEN C_Begin(a, <<>>)
    ELSE IF a.variant = "F" THEN F_Begin(a, <<>>)
    ELSE D_Begin(a, <<>>)

\* the cell function from the return of a resolver call to the next one
ResumeOf(a, st, text) ==
    IF st.rcall.method = "resolve_semantic_pair"
    THEN IF a.variant = "C" THEN C_AfterResolve(a, st.trace, st.loc, st.rcall, text)
         ELSE F_AfterResolve(a, st.trace, st.loc, st.rcall, text)
    ELSE IF a.variant = "C" THEN C_AfterLens(a, st.trace, st.loc, st.rcall, text)
    ELSE IF a.variant = "F" THEN F_AfterLens(a, st.trace, st.loc, st.rcall, text)
    ELSE D_AfterLens(a, st.trace, st.loc, st.rcall, text)

\* the run of a cell function to its end: its resolver calls and how it ends
RECURSIVE RunToEnd(_, _, _)
RunToEnd(a, st, calls) ==
    IF st.pc = "wait"
    THEN RunToEnd(a, ResumeOf(a, st, AnswerTo(st.rcall)), Append(calls, st.rcall))
    ELSE [calls |-> calls, pc |-> st.pc, cres |-> st.cres]

\* the same call without a tracer
WithoutTracer == RunToEnd([cargs EXCEPT !.tracer = FALSE],
                          BeginOf([cargs EXCEPT !.tracer = FALSE]), <<>>)

TracedRun ==
    /\ Called(cargs) /\ cargs.tracer /\ cargs.sink_fails_at = 0
    /\ resolver.kind \in {"mock", "echo"}

C37_TracerChangesNothing ==
    TracedRun =>
        /\ (cpc = "wait" /\ mpc = "idle") =>
              /\ Len(ResolverCalls) <= Len(WithoutTracer.calls)
              /\ rcall = WithoutTracer.calls[Len(ResolverCalls)]
        /\ cpc = "done" =>
              /\ WithoutTracer.pc = "done"
              /\ mpc = "idle" => Len(ResolverCalls) = Len(WithoutTracer.calls)
              /\ cres.val.provenance.traced
              /\ ~WithoutTracer.cres.val.provenance.traced
              /\ [cres.val EXCEPT !.provenance.traced = FALSE] = WithoutTracer.cres.val
        /\ cpc = "raised" => (WithoutTracer.pc = "raised" /\ WithoutTracer.cres = cres)

\* compute_cell_F with a tracer has returned its Cell and left two events
C37_Witness ==
    /\ TracedRun /\ mpc = "idle" /\ cpc = "done"
    /\ cargs.variant = "F" /\ resolver.kind = "echo"
    /\ Len(trace) = 2 /\ Len(WithoutTracer.calls) = 2
    /\ cres.val.provenance.traced


(***************************************************************************)
(* C38: the cell functions and the matrix wrappers leave their input       *)
(* matrices as they were (name, station, labels, every cell), whether the  *)
(* run returns or raises, and the Cells a run returns are newly created:   *)
(* none of them is a cell of an input.                                     *)
(***************************************************************************)
CellsOf(M) == {M.cells[r][c] : r \in 1..Len(M.cells), c \in 1..Len(M.cells[1])}

InputCells(a) == CellsOf(a.X) \cup CellsOf(a.Y)

\* the operands a cell run works on stay what they were when it was called
CellInputsKept ==
    (Called(cargs) /\ cpc # "idle" /\ Called(cargs')) =>
        (cargs'.X = cargs.X /\ cargs'.Y = cargs.Y)

\* the operands of a wrapper stay what they were, and every cell function it
\* calls is handed those operands
MatrixInputsKept ==
    (Called(margs) /\ mpc # "idle") =>
        (margs' = margs /\ cargs'.X = margs.X /\ cargs'.Y = margs.Y)

\* what is returned holds no cell of an input
NewCells ==
    /\ (cpc' = "done" /\ cres'.ok) => cres'.val \notin InputCells(cargs')
    /\ (mpc' = "done" /\ mres'.ok) =>
          \A r \in 1..Len(mres'.val.cells) :
              \A c \in 1..Len(mres'.val.cells[r]) :
                  mres'.val.cells[r][c] \notin InputCells(margs')

C38_InputsUnchanged == [][CellInputsKept /\ MatrixInputsKept /\ NewCells]_vars

\* compute_matrix_C has raised at (2, 0) on a 2x4 left operand, after eight
\* cells, with its operands as they were passed
C38_Witness ==
    /\ mpc = "raised" /\ margs.variant = "C"
    /\ margs.X = TestMatrix("A", 2, 4) /\ margs.Y = MATRIX_B
    /\ cargs.X = margs.X /\ cargs.Y = margs.Y
    /\ cargs.i = 2 /\ Len(mloc.cells) = 2


(***************************************************************************)
(* C39: the outcome made up when the retry budget is exhausted satisfies   *)
(* the schema _validate_obj enforces (a string text, terms_used and        *)
(* warnings lists of strings), so that every outcome a dispatch returns is *)
(* valid under that schema.                                                *)
(***************************************************************************)
DispatchReturned == dpc = "returned" /\ ret.phase # "none"

C39_FailureOutcomeValid ==
    /\ Degraded =>
         /\ _validate_obj(ret.response).ok
         /\ DOMAIN ret.response = {"text", "terms_used", "warnings"}
         /\ ret.response.terms_used = JList(<<>>)
         /\ Len(ret.response.warnings.l) = 1
    /\ DispatchReturned =>
         /\ ret.response.text.t = "str"
         /\ IsListOfStr(ret.response.terms_used)
         /\ IsListOfStr(ret.response.warnings)

\* a failure outcome after a last attempt that the validation rejected
C39_Witness ==
    /\ Degraded
    /\ last_err.cls = "ValueError"
    /\ ret.response.warnings.l[1].t = "str"
    /\ NumCalls = resolver.max_retries + 1


(***************************************************************************)
(* C40: validate_matrix returns a list of error strings and does not       *)
(* raise: the empty list for a well-formed Matrix (the canonical A, B and  *)
(* J), a non-empty list for a Matrix whose label counts disagree with its  *)
(* grid of cells.                                                          *)
(***************************************************************************)
ValidatingMatrix == ucall.fn = "validate_matrix"

\* as many row labels as rows of cells, as many column labels as cells in
\* every row
LabelsFitGrid(M) ==
    /\ Len(M.row_labels) = Len(M.cells)
    /\ \A r \in 1..Len(M.cells) : Len(M.cells[r]) = Len(M.col_labels)

C40_ValidateMatrixReturnsErrors ==
    ValidatingMatrix =>
        /\ uret.ok
        /\ ucall.matrix \in {MATRIX_A, MATRIX_B, MATRIX_J} => uret.val = <<>>
        /\ ~LabelsFitGrid(ucall.matrix) => uret.val # <<>>

====
